---- MODULE Spec2Model ----
(***************************************************************************)
(* courseflow: the six Supabase edge functions that call the hosted        *)
(* chat-completion endpoint, and the useCourses hook working on the        *)
(* relational schema of supabase/migrations.                               *)
(***************************************************************************)
EXTENDS Integers, Sequences, FiniteSets, TLC

VARIABLES
    \* ---- edge functions: one inbound request at a time per invocation
    handler,      \* the edge function serving the current request
    request,      \* the inbound request
    credential,   \* TRUE iff Deno.env has GROQ_API_KEY
    edgePc,       \* "idle" | "fetching" (await fetch in flight) | "done"
    calls,        \* outbound calls to the inference endpoint for this request
    reply,        \* what the last outbound call settled with
    response,     \* the Response the handler returned
    \* ---- the useCourses hook and the database it works on
    db,           \* the tables of supabase/migrations
    courses,      \* useState<Course[]>: the local course list
    isLoading,    \* useState(true)
    hook,         \* the hook operation in flight and its locals
    issued,       \* the database requests the current operation has issued
    last,         \* how the last finished operation ended
    faults,       \* requests that failed for transport reasons so far
    \* ---- pure steps of the handlers and the quiz modal
    extraction,   \* the model text a handler is turning into JSON
    mapped,       \* the recommendations array generateAIRecommendations maps
    quiz,         \* the state of the QuizModal component
    \* ---- the components and hooks of the client
    viewer,       \* CourseViewer with its quiz and checkpoint modals
    checkpoint,   \* the rule-based feedback of a module checkpoint
    folderView,   \* useFolders and the FolderManager listing
    recommender,  \* useRecommendedLessons
    tutor         \* AITutor

edgeVars == <<handler, request, credential, edgePc, calls, reply, response>>

hookVars == <<db, courses, isLoading, hook, issued, last, faults>>

clientVars == <<viewer, checkpoint, folderView, recommender, tutor>>

vars == <<edgeVars, hookVars, extraction, mapped, quiz, clientVars>>

----------------------------------------------------------------------------
(* Edge functions                                                          *)

GenerateCourse == "generate-course"
LessonRecommendations == "generate-lesson-recommendations"
ValidateQuizAnswer == "validate-quiz-answer"
AdaptiveFeedback == "generate-adaptive-feedback"
RoadmapContent == "generate-roadmap-content"
TutorChat == "ai-tutor-chat"

Handlers ==
    {GenerateCourse, LessonRecommendations, ValidateQuizAnswer,
     AdaptiveFeedback, RoadmapContent, TutorChat}

\* The body fields each handler destructures; a field is in request.fields
\* iff the body carries it with a truthy value.
InputFields(h) ==
    CASE h = GenerateCourse -> {"title", "audience_level", "duration"}
      [] h = LessonRecommendations -> {"courseTitle", "moduleTopics", "lessonTopics"}
      [] h = ValidateQuizAnswer -> {"userAnswer", "question", "correctAnswer", "options"}
      [] h = AdaptiveFeedback ->
            {"quiz_score", "confidence_level", "struggle_topics", "understanding_topics"}
      [] h = RoadmapContent -> {"courseTitle", "category", "contentType"}
      [] OTHER -> {"message", "courseId", "userId", "context"}

\* json = FALSE: req.json() rejects (the body is not JSON).
Requests(h) ==
    {[method |-> "OPTIONS", json |-> FALSE, fields |-> {}]}
    \cup [method : {"POST"}, json : {TRUE}, fields : SUBSET InputFields(h)]
    \cup {[method |-> "POST", json |-> FALSE, fields |-> {}]}

NoRequest == [method |-> "none", json |-> FALSE, fields |-> {}]

\* The text of choices[0].message.content, by what JSON.parse makes of it
\* after the handler's cleaning: it throws, or yields null, a scalar, or an
\* object carrying one key of interest with a value of some shape.
NoText == [parse |-> "none", key |-> "none", val |-> "none"]

TextKeys == {"modules", "recommendations", "motivational_message", "projects"}

\* "empty": a falsy value (null, "", 0, false).
TextVals == {"array", "arrayWithNull", "string", "empty"}

Texts ==
    {[parse |-> p, key |-> "none", val |-> "none"] : p \in {"throw", "null", "scalar"}}
    \cup [parse : {"object"}, key : TextKeys, val : TextVals]

\* What an outbound call settles with: fetch rejects, or resolves with a
\* status and a body.
Rejected == [net |-> "reject", status |-> 0, shape |-> "none", text |-> NoText]

NoReply == [net |-> "none", status |-> 0, shape |-> "none", text |-> NoText]

ErrorStatuses == {400, 429, 500}

Replies ==
    {Rejected}
    \cup [net : {"ok"}, status : ErrorStatuses, shape : {"error"}, text : {NoText}]
    \cup [net : {"ok"}, status : {200}, shape : {"notjson", "nochoices", "nocontent"},
          text : {NoText}]
    \cup [net : {"ok"}, status : {200}, shape : {"text"}, text : Texts]

\* Response.ok
Ok(rep) == rep.status >= 200 /\ rep.status <= 299

\* Responses: every Response is built with corsHeaders.
NoResponse == [status |-> 0, keys |-> {}, content |-> "none", cors |-> FALSE]

Preflight == [status |-> 200, keys |-> {}, content |-> "ok", cors |-> TRUE]

Error500 == [status |-> 500, keys |-> {"error", "details"}, content |-> "error", cors |-> TRUE]

Success(keys, content) == [status |-> 200, keys |-> keys, content |-> content, cors |-> TRUE]

Respond(r) == [act |-> "respond", resp |-> r]

Fetch == [act |-> "fetch", resp |-> NoResponse]

\* getFallbackRecommendations: the static templates, HTTP 200.
getFallbackRecommendations == Success({"recommendations"}, "fallback")

\* A lesson of the fallback course: objectives and options are the lengths
\* of the literal arrays, content is TRUE for a non-empty template string,
\* answer is the index in options of the literal answer string.
FallbackLesson(a1, a2) ==
    [objectives |-> 4, content |-> TRUE,
     quiz |-> <<[options |-> 4, answer |-> a1], [options |-> 4, answer |-> a2]>>,
     free_resources |-> <<[title |-> TRUE, url |-> TRUE], [title |-> TRUE, url |-> TRUE]>>]

\* Mutant: the second module of the fallback course has no lesson.
courseFallbackEmptyModule ==
    [modules |-> <<[lessons |-> <<FallbackLesson(4, 2)>>], [lessons |-> <<>>]>>]

\* The courseContent literal of the catch (parseError) of generate-course.
courseFallback ==
    [modules |-> <<[lessons |-> <<FallbackLesson(4, 2)>>],
                   [lessons |-> <<FallbackLesson(2, 2)>>]>>]

----------------------------------------------------------------------------
(* The handlers up to their outbound call                                  *)

generateCourseBefore(req, cred) ==
    IF req.method = "OPTIONS" THEN Respond(Preflight)
    ELSE IF ~req.json THEN Respond(Error500)
    ELSE IF ~({"title", "audience_level", "duration"} \subseteq req.fields)
        THEN Respond(Error500)
    ELSE IF ~cred THEN Respond(Error500)
    ELSE Fetch

\* moduleTopics.join and lessonTopics.slice throw a TypeError while the
\* prompt is built, inside the inner try of serve.
lessonRecommendationsBefore(req, cred) ==
    IF req.method = "OPTIONS" THEN Respond(Preflight)
    ELSE IF ~req.json THEN Respond(Error500)
    ELSE IF "courseTitle" \notin req.fields THEN Respond(Error500)
    ELSE IF ~cred THEN Respond(getFallbackRecommendations)
    ELSE IF ~({"moduleTopics", "lessonTopics"} \subseteq req.fields)
        THEN Respond(getFallbackRecommendations)
    ELSE Fetch

\* Mutant: the handler reads the body before it looks at the method.
validateQuizAnswerBeforeReadsBody(req, cred) ==
    IF ~req.json THEN Respond(Error500)
    ELSE IF req.method = "OPTIONS" THEN Respond(Preflight)
    ELSE IF ~({"userAnswer", "question", "correctAnswer"} \subseteq req.fields)
        THEN Respond(Error500)
    ELSE IF ~cred THEN Respond(Error500)
    ELSE Fetch

validateQuizAnswerBefore(req, cred) ==
    IF req.method = "OPTIONS" THEN Respond(Preflight)
    ELSE IF ~req.json THEN Respond(Error500)
    ELSE IF ~({"userAnswer", "question", "correctAnswer"} \subseteq req.fields)
        THEN Respond(Error500)
    ELSE IF ~cred THEN Respond(Error500)
    ELSE Fetch

\* No field is validated; struggle_topics.join and understanding_topics.join
\* throw a TypeError while the request body of fetch is built.
adaptiveFeedbackBefore(req, cred) ==
    IF req.method = "OPTIONS" THEN Respond(Preflight)
    ELSE IF ~req.json THEN Respond(Error500)
    ELSE IF ~cred THEN Respond(Error500)
    ELSE IF ~({"struggle_topics", "understanding_topics"} \subseteq req.fields)
        THEN Respond(Error500)
    ELSE Fetch

roadmapContentBefore(req, cred) ==
    IF req.method = "OPTIONS" THEN Respond(Preflight)
    ELSE IF ~req.json THEN Respond(Error500)
    ELSE IF ~({"courseTitle", "category", "contentType"} \subseteq req.fields)
        THEN Respond(Error500)
    ELSE IF ~cred THEN Respond(Error500)
    ELSE Fetch

\* Mutant: the handler calls the endpoint before it looks at the credential.
tutorChatBeforeNoKeyCheck(req, cred) ==
    IF req.method = "OPTIONS" THEN Respond(Preflight)
    ELSE IF ~req.json THEN Respond(Error500)
    ELSE Fetch

\* No field is validated.
tutorChatBefore(req, cred) ==
    IF req.method = "OPTIONS" THEN Respond(Preflight)
    ELSE IF ~req.json THEN Respond(Error500)
    ELSE IF ~cred THEN Respond(Error500)
    ELSE Fetch

BeforeFetch(h, req, cred) ==
    CASE h = GenerateCourse -> generateCourseBefore(req, cred)
      [] h = LessonRecommendations -> lessonRecommendationsBefore(req, cred)
      [] h = ValidateQuizAnswer -> validateQuizAnswerBefore(req, cred)
      [] h = AdaptiveFeedback -> adaptiveFeedbackBefore(req, cred)
      [] h = RoadmapContent -> roadmapContentBefore(req, cred)
      [] OTHER -> tutorChatBefore(req, cred)

----------------------------------------------------------------------------
(* The handlers from the settled outbound call to their Response           *)

\* courseContent.modules is an array (a null or scalar value fails too).
courseStructureOK(text) ==
    text.parse = "object" /\ text.key = "modules"
    /\ text.val \in {"array", "arrayWithNull"}

\* Mutant: a non-success status is absorbed by the fallback course.
generateCourseAfterAbsorbsStatus(rep) ==
    IF rep.net = "reject" THEN Respond(Error500)
    ELSE IF rep.shape \in {"notjson", "nochoices"} THEN Respond(Error500)
    ELSE IF Ok(rep) /\ rep.shape = "text" /\ courseStructureOK(rep.text)
        THEN Respond(Success({"success", "courseContent"}, "model"))
    ELSE Respond(Success({"success", "courseContent"}, "fallback"))

\* The catch of the inner try reads groqData.choices[0].message.content
\* again: with no choices[0] that read throws into the outer catch.
generateCourseAfter(rep) ==
    IF rep.net = "reject" THEN Respond(Error500)
    ELSE IF ~Ok(rep) THEN Respond(Error500)
    ELSE IF rep.shape = "notjson" THEN Respond(Error500)
    ELSE IF rep.shape = "nochoices" THEN Respond(Error500)
    ELSE IF rep.shape = "nocontent"
        THEN Respond(Success({"success", "courseContent"}, "fallback"))
    ELSE IF courseStructureOK(rep.text)
        THEN Respond(Success({"success", "courseContent"}, "model"))
    ELSE Respond(Success({"success", "courseContent"}, "fallback"))

\* recommendationsData.recommendations is an array and the map over it
\* does not throw (rec.id of a null element does).
recommendationsStructureOK(text) ==
    text.parse = "object" /\ text.key = "recommendations" /\ text.val = "array"

\* Mutant: serve has no inner catch, a failed generation reaches the outer one.
lessonRecommendationsAfterUncaught(rep) ==
    IF rep.net = "reject" THEN Respond(Error500)
    ELSE IF ~Ok(rep) THEN Respond(Error500)
    ELSE IF rep.shape # "text" THEN Respond(Error500)
    ELSE IF recommendationsStructureOK(rep.text)
        THEN Respond(Success({"recommendations"}, "model"))
    ELSE Respond(Error500)

\* Mutant: the rate-limit status is retried instead of falling back.
lessonRecommendationsAfterRetry429(rep) ==
    IF rep.net = "reject" THEN Respond(getFallbackRecommendations)
    ELSE IF rep.status = 429 THEN Fetch
    ELSE IF ~Ok(rep) THEN Respond(getFallbackRecommendations)
    ELSE IF rep.shape # "text" THEN Respond(getFallbackRecommendations)
    ELSE IF recommendationsStructureOK(rep.text)
        THEN Respond(Success({"recommendations"}, "model"))
    ELSE Respond(getFallbackRecommendations)

\* generateAIRecommendations, with the catch (aiError) of serve around it.
lessonRecommendationsAfter(rep) ==
    IF rep.net = "reject" THEN Respond(getFallbackRecommendations)
    ELSE IF ~Ok(rep) THEN Respond(getFallbackRecommendations)
    ELSE IF rep.shape # "text" THEN Respond(getFallbackRecommendations)
    ELSE IF recommendationsStructureOK(rep.text)
        THEN Respond(Success({"recommendations"}, "model"))
    ELSE Respond(getFallbackRecommendations)

validateQuizAnswerAfter(rep) ==
    IF rep.net = "reject" THEN Respond(Error500)
    ELSE IF ~Ok(rep) THEN Respond(Error500)
    ELSE IF rep.shape # "text" THEN Respond(Error500)
    ELSE Respond(Success({"success", "isCorrect", "userAnswer", "correctAnswer"}, "model"))

\* feedbackContent.motivational_message is truthy.
feedbackStructureOK(text) ==
    text.parse = "object" /\ text.key = "motivational_message" /\ text.val # "empty"

\* Mutant: a failed structure check is rethrown to the outer catch.
adaptiveFeedbackAfterRethrows(rep) ==
    IF rep.net = "reject" THEN Respond(Error500)
    ELSE IF ~Ok(rep) THEN Respond(Error500)
    ELSE IF rep.shape = "notjson" THEN Respond(Error500)
    ELSE IF rep.shape = "nochoices" THEN Respond(Error500)
    ELSE IF rep.shape = "nocontent"
        THEN Respond(Success({"success", "feedback"}, "fallback"))
    ELSE IF feedbackStructureOK(rep.text)
        THEN Respond(Success({"success", "feedback"}, "model"))
    ELSE IF rep.text.parse = "throw"
        THEN Respond(Success({"success", "feedback"}, "fallback"))
    ELSE Respond(Error500)

adaptiveFeedbackAfter(rep) ==
    IF rep.net = "reject" THEN Respond(Error500)
    ELSE IF ~Ok(rep) THEN Respond(Error500)
    ELSE IF rep.shape = "notjson" THEN Respond(Error500)
    ELSE IF rep.shape = "nochoices" THEN Respond(Error500)
    ELSE IF rep.shape = "nocontent"
        THEN Respond(Success({"success", "feedback"}, "fallback"))
    ELSE IF feedbackStructureOK(rep.text)
        THEN Respond(Success({"success", "feedback"}, "model"))
    ELSE Respond(Success({"success", "feedback"}, "fallback"))

\* No structure check: whatever JSON.parse returns is the content.
roadmapContentAfter(rep) ==
    IF rep.net = "reject" THEN Respond(Error500)
    ELSE IF ~Ok(rep) THEN Respond(Error500)
    ELSE IF rep.shape = "notjson" THEN Respond(Error500)
    ELSE IF rep.shape \in {"nochoices", "nocontent"}
        THEN Respond(Success({"success", "content"}, "fallback"))
    ELSE IF rep.text.parse # "throw"
        THEN Respond(Success({"success", "content"}, "model"))
    ELSE Respond(Success({"success", "content"}, "fallback"))

tutorChatAfter(rep) ==
    IF rep.net = "reject" THEN Respond(Error500)
    ELSE IF ~Ok(rep) THEN Respond(Error500)
    ELSE IF rep.shape \in {"notjson", "nochoices"} THEN Respond(Error500)
    ELSE IF rep.shape = "nocontent" THEN Respond(Success({"success"}, "model"))
    ELSE Respond(Success({"success", "response"}, "model"))

AfterFetch(h, rep) ==
    CASE h = GenerateCourse -> generateCourseAfter(rep)
      [] h = LessonRecommendations -> lessonRecommendationsAfter(rep)
      [] h = ValidateQuizAnswer -> validateQuizAnswerAfter(rep)
      [] h = AdaptiveFeedback -> adaptiveFeedbackAfter(rep)
      [] h = RoadmapContent -> roadmapContentAfter(rep)
      [] OTHER -> tutorChatAfter(rep)

----------------------------------------------------------------------------
(* Actions of an edge-function invocation                                  *)

EdgeInit ==
    /\ handler = GenerateCourse
    /\ request = NoRequest
    /\ credential = TRUE
    /\ edgePc = "idle"
    /\ calls = 0
    /\ reply = NoReply
    /\ response = NoResponse

\* The deployment sets or unsets GROQ_API_KEY between requests.
Configure(c) ==
    /\ UNCHANGED <<hookVars, extraction, mapped, quiz, clientVars>>
    /\ edgePc = "idle"
    /\ credential # c
    /\ credential' = c
    /\ UNCHANGED <<handler, request, edgePc, calls, reply, response>>

Settle(o) ==
    IF o.act = "fetch"
    THEN /\ edgePc' = "fetching"
         /\ calls' = calls + 1
         /\ response' = NoResponse
    ELSE /\ edgePc' = "done"
         /\ calls' = calls
         /\ response' = o.resp

\* serve(req) runs to its first await of fetch, or to its Response.
Receive(h, req) ==
    /\ UNCHANGED <<hookVars, extraction, mapped, quiz, clientVars>>
    /\ edgePc = "idle"
    /\ handler' = h
    /\ request' = req
    /\ Settle(BeforeFetch(h, req, credential))
    /\ UNCHANGED <<credential, reply>>

\* The awaited fetch settles and the handler runs to its Response.
FetchSettles(rep) ==
    /\ UNCHANGED <<hookVars, extraction, mapped, quiz, clientVars>>
    /\ edgePc = "fetching"
    /\ reply' = rep
    /\ Settle(AfterFetch(handler, rep))
    /\ UNCHANGED <<handler, request, credential>>

\* The Response is sent; the invocation keeps no state.
Deliver ==
    /\ UNCHANGED <<hookVars, extraction, mapped, quiz, clientVars>>
    /\ edgePc = "done"
    /\ edgePc' = "idle"
    /\ request' = NoRequest
    /\ calls' = 0
    /\ reply' = NoReply
    /\ response' = NoResponse
    /\ UNCHANGED <<handler, credential>>

EdgeNext ==
    \/ \E c \in BOOLEAN : Configure(c)
    \/ \E h \in Handlers : \E req \in Requests(h) : Receive(h, req)
    \/ \E rep \in Replies : FetchSettles(rep)
    \/ Deliver

----------------------------------------------------------------------------
(* The relational schema of supabase/migrations                            *)

MaxCourses == 1

MaxModules == 2

MaxLessons == 2

MaxItems == 1

MaxScores == 1

MaxChats == 1

MaxFaults == 1

\* created: the course rows inserted so far (gen_random_uuid never repeats).
EmptyDb ==
    [courses |-> {}, modules |-> {}, lessons |-> {}, quiz_questions |-> {},
     resources |-> {}, quiz_scores |-> {}, tutor_chats |-> {}, created |-> 0]

\* courses: progress INTEGER DEFAULT 0
CourseRow(c) == [id |-> c, progress |-> 0]

ModuleRow(c, m) == [id |-> <<c, m>>, course_id |-> c, module_order |-> m]

\* lessons: completed BOOLEAN DEFAULT false
LessonRow(c, m, l) ==
    [id |-> <<c, m, l>>, module_id |-> <<c, m>>, lesson_order |-> l, completed |-> FALSE]

QuizQuestionRow(c, m, l, k) ==
    [id |-> <<c, m, l, k>>, lesson_id |-> <<c, m, l>>, question_order |-> k]

ResourceRow(c, m, l, k) ==
    [id |-> <<c, m, l, k>>, lesson_id |-> <<c, m, l>>, resource_order |-> k]

QuizScoreRow(n, l) == [id |-> n, course_id |-> l[1], lesson_id |-> l]

TutorChatRow(n, c) == [id |-> n, course_id |-> c]

ModulesOf(d, c) == {m \in d.modules : m.course_id = c}

LessonsOf(d, c) == {l \in d.lessons : \E m \in ModulesOf(d, c) : l.module_id = m.id}

\* The tables that have a FOR DELETE row-level policy; on a table with row
\* security and no such policy a client DELETE matches no row and reports
\* no error.
DeletePolicies == {"courses", "modules", "lessons", "folders"}

\* quiz_scores.course_id, quiz_scores.lesson_id and tutor_chats.course_id
\* are declared without ON DELETE CASCADE: a referencing row rejects the
\* delete of the course (or of a lesson the cascade would remove).
CourseDeleteBlocked(d, c) ==
    \/ \E s \in d.quiz_scores : s.course_id = c
    \/ \E t \in d.tutor_chats : t.course_id = c
    \/ \E s \in d.quiz_scores : \E l \in LessonsOf(d, c) : s.lesson_id = l.id

\* ON DELETE CASCADE from courses to modules, lessons, quiz_questions and
\* resources.
CascadeDeleteCourse(d, c) ==
    LET gone == {l.id : l \in LessonsOf(d, c)} IN
    [d EXCEPT !.courses = {x \in @ : x.id # c},
              !.modules = {m \in @ : m.course_id # c},
              !.lessons = {l \in @ : l.id \notin gone},
              !.quiz_questions = {q \in @ : q.lesson_id \notin gone},
              !.resources = {r \in @ : r.lesson_id \notin gone}]

\* supabase.from(table).delete().eq(course_id | id, c), run by the owner.
DeleteFrom(d, table, c) ==
    IF table = "quiz_scores"
    THEN [db |-> IF "quiz_scores" \in DeletePolicies
                 THEN [d EXCEPT !.quiz_scores = {s \in @ : s.course_id # c}]
                 ELSE d,
          error |-> FALSE]
    ELSE IF CourseDeleteBlocked(d, c)
    THEN [db |-> d, error |-> TRUE]
    ELSE [db |-> CascadeDeleteCourse(d, c), error |-> FALSE]

----------------------------------------------------------------------------
(* useCourses                                                              *)

\* The courseContent of a generate-course response: modules[m] is the
\* number of lessons of module m; every lesson carries quiz questions and
\* free_resources items.
LessonCounts == UNION {[1..n -> 0..MaxLessons] : n \in 0..MaxModules}

Contents == [modules : LessonCounts, quiz : 0..MaxItems, free_resources : 0..MaxItems]

NoContent == [modules |-> <<>>, quiz |-> 0, free_resources |-> 0]

RECURSIVE Flatten(_)
Flatten(ss) == IF Len(ss) = 0 THEN <<>> ELSE Head(ss) \o Flatten(Tail(ss))

Insert(table, m, l, k) == [table |-> table, m |-> m, l |-> l, k |-> k]

\* The awaited inserts of the loop nest of createCourse, in program order.
LessonInserts(content, m, l) ==
    <<Insert("lessons", m, l, 0)>>
    \o [k \in 1..content.quiz |-> Insert("quiz_questions", m, l, k)]
    \o [k \in 1..content.free_resources |-> Insert("resources", m, l, k)]

ModuleInserts(content, m) ==
    <<Insert("modules", m, 0, 0)>>
    \o Flatten([l \in 1..content.modules[m] |-> LessonInserts(content, m, l)])

createCourseInserts(content) ==
    Flatten([m \in 1..Len(content.modules) |-> ModuleInserts(content, m)])

\* Math.round(x) = floor(x + 0.5) for x = num / den, den > 0.
MathRound(num, den) == (2 * num + den) \div (2 * den)

\* modules.reduce((total, module) => total + ..., 0)
RECURSIVE Sum(_)
Sum(ns) == IF Len(ns) = 0 THEN 0 ELSE Head(ns) + Sum(Tail(ns))

TotalLessons(modules) == Sum([i \in 1..Len(modules) |-> Len(modules[i].lessons)])

CompletedLessons(modules) ==
    Sum([i \in 1..Len(modules) |->
            Cardinality({j \in 1..Len(modules[i].lessons) :
                            modules[i].lessons[j].completed})])

\* Mutant: the percentage is truncated instead of rounded.
calculateCourseProgressTruncated(modules) ==
    IF Len(modules) = 0 THEN 0
    ELSE LET totalLessons == TotalLessons(modules) IN
         IF totalLessons = 0 THEN 0
         ELSE (CompletedLessons(modules) * 100) \div totalLessons

calculateCourseProgress(modules) ==
    IF Len(modules) = 0 THEN 0
    ELSE LET totalLessons == TotalLessons(modules) IN
         IF totalLessons = 0 THEN 0
         ELSE MathRound(CompletedLessons(modules) * 100, totalLessons)

\* .order(column): the rows of S as a sequence ascending in column.
OrderBy(S, column) ==
    CHOOSE s \in [1..Cardinality(S) -> S] :
        \A i, j \in 1..Cardinality(S) : i < j => s[i][column] < s[j][column]

\* .order('created_at', { ascending: false }): newest first; ids are given
\* in creation order.
OrderByCreatedDesc(S) ==
    CHOOSE s \in [1..Cardinality(S) -> S] :
        \A i, j \in 1..Cardinality(S) : i < j => s[i].id > s[j].id

\* lessonsWithQuizAndResources of one module
LessonsWithQuizAndResources(d, mid) ==
    LET rows == OrderBy({l \in d.lessons : l.module_id = mid}, "lesson_order") IN
    [i \in 1..Len(rows) |->
        [id |-> rows[i].id,
         lesson_order |-> rows[i].lesson_order,
         completed |-> rows[i].completed,
         quiz |-> OrderBy({q \in d.quiz_questions : q.lesson_id = rows[i].id}, "question_order"),
         free_resources |-> OrderBy({r \in d.resources : r.lesson_id = rows[i].id}, "resource_order")]]

\* modulesWithLessons of one course
ModulesWithLessons(d, c) ==
    LET rows == OrderBy(ModulesOf(d, c), "module_order") IN
    [i \in 1..Len(rows) |->
        [id |-> rows[i].id,
         module_order |-> rows[i].module_order,
         lessons |-> LessonsWithQuizAndResources(d, rows[i].id)]]

\* The element of coursesWithModules built from a row of coursesData.
CourseWithModules(d, row) ==
    LET modules == ModulesWithLessons(d, row.id) IN
    [id |-> row.id, progress |-> calculateCourseProgress(modules), modules |-> modules]

LocalIds == {courses[i].id : i \in 1..Len(courses)}

LocalLessonIds ==
    {courses[i].modules[m].lessons[l].id :
        <<i, m, l>> \in
            {t \in (1..Len(courses)) \X (1..(MaxModules + 1)) \X (1..(MaxLessons + 1)) :
                /\ t[2] <= Len(courses[t[1]].modules)
                /\ t[3] <= Len(courses[t[1]].modules[t[2]].lessons)}}

\* A request the client has issued: what it asked and how it ended
\* ("ok", "unavailable": it failed in transport, "rejected": the database
\* refused it). was: the stored progress a courses update replaces.
Req(verb, table, id, result, was) ==
    [verb |-> verb, table |-> table, id |-> id, result |-> result, was |-> was]

Outcome(ok) == IF ok THEN "ok" ELSE "unavailable"

Idle ==
    [op |-> "none", pc |-> "none", caller |-> "none", content |-> NoContent,
     course |-> 0, next |-> 0, arg |-> 0, pending |-> {}, loaded |-> {}]

Ended(op, result, fetch, course) ==
    [op |-> op, result |-> result, fetch |-> fetch, course |-> course]

HookInit ==
    /\ db = EmptyDb
    /\ courses = <<>>
    /\ isLoading = TRUE
    /\ hook = Idle
    /\ issued = <<>>
    /\ last = Ended("none", "none", "none", 0)
    /\ faults = 0

\* A request fails in transport at most MaxFaults times in a behaviour.
Fault(ok) ==
    /\ ok \/ faults < MaxFaults
    /\ faults' = IF ok THEN faults ELSE faults + 1

----------------------------------------------------------------------------
(* createCourse                                                            *)

\* Mutant: the catch removes the course it had inserted before rethrowing.
createCourseCatchRollsBack(d, c) == CascadeDeleteCourse(d, c)

\* catch (error) { console.error(...); throw error; }: what the catch of
\* createCourse does to the database when course c has been inserted.
createCourseCatch(d, c) == d

Throw(d) ==
    /\ db' = createCourseCatch(d, hook.course)
    /\ hook' = Idle
    /\ last' = Ended("createCourse", "threw", "none", hook.course)
    /\ UNCHANGED <<courses, isLoading>>

\* After insert n: the next awaited insert, or await fetchCourses().
Advance(n) ==
    IF n > Len(createCourseInserts(hook.content))
    THEN [hook EXCEPT !.pc = "fetchCourses", !.caller = "createCourse", !.next = n]
    ELSE [hook EXCEPT !.pc = "inserts", !.next = n]

\* supabase.functions.invoke('generate-course') settles.
CreateCourse(content, ok) ==
    /\ UNCHANGED <<edgeVars, extraction, mapped, quiz, clientVars>>
    /\ hook.op = "none"
    /\ db.created < MaxCourses
    /\ Fault(ok)
    /\ issued' = <<>>
    /\ IF ok
       THEN /\ hook' = [Idle EXCEPT !.op = "createCourse", !.pc = "insertCourse",
                                    !.content = content]
            /\ last' = Ended("createCourse", "running", "none", 0)
       ELSE /\ hook' = Idle
            /\ last' = Ended("createCourse", "threw", "none", 0)
    /\ UNCHANGED <<db, courses, isLoading>>

CreateInsertCourse(ok) ==
    /\ UNCHANGED <<edgeVars, extraction, mapped, quiz, clientVars>>
    /\ hook.op = "createCourse" /\ hook.pc = "insertCourse"
    /\ Fault(ok)
    /\ LET c == db.created + 1 IN
       /\ issued' = Append(issued, Req("insert", "courses", <<c>>, Outcome(ok), 0))
       /\ IF ok
          THEN /\ db' = [db EXCEPT !.courses = @ \cup {CourseRow(c)}, !.created = c]
               /\ hook' = [Advance(1) EXCEPT !.course = c]
               /\ UNCHANGED <<courses, isLoading, last>>
          ELSE /\ db' = db
               /\ hook' = Idle
               /\ last' = Ended("createCourse", "threw", "none", 0)
               /\ UNCHANGED <<courses, isLoading>>

NextInsert == createCourseInserts(hook.content)[hook.next]

Inserting(table) ==
    /\ hook.op = "createCourse" /\ hook.pc = "inserts"
    /\ NextInsert.table = table

\* if (moduleError) throw moduleError
CreateInsertModule(ok) ==
    /\ UNCHANGED <<edgeVars, extraction, mapped, quiz, clientVars>>
    /\ Inserting("modules")
    /\ Fault(ok)
    /\ LET row == ModuleRow(hook.course, NextInsert.m) IN
       /\ issued' = Append(issued, Req("insert", "modules", row.id, Outcome(ok), 0))
       /\ IF ok
          THEN /\ db' = [db EXCEPT !.modules = @ \cup {row}]
               /\ hook' = Advance(hook.next + 1)
               /\ UNCHANGED <<courses, isLoading, last>>
          ELSE Throw(db)

\* if (lessonError) throw lessonError
CreateInsertLesson(ok) ==
    /\ UNCHANGED <<edgeVars, extraction, mapped, quiz, clientVars>>
    /\ Inserting("lessons")
    /\ Fault(ok)
    /\ LET row == LessonRow(hook.course, NextInsert.m, NextInsert.l) IN
       /\ issued' = Append(issued, Req("insert", "lessons", row.id, Outcome(ok), 0))
       /\ IF ok
          THEN /\ db' = [db EXCEPT !.lessons = @ \cup {row}]
               /\ hook' = Advance(hook.next + 1)
               /\ UNCHANGED <<courses, isLoading, last>>
          ELSE Throw(db)

\* The result of the insert is not looked at.
CreateInsertQuizQuestion(ok) ==
    /\ UNCHANGED <<edgeVars, extraction, mapped, quiz, clientVars>>
    /\ Inserting("quiz_questions")
    /\ Fault(ok)
    /\ LET row == QuizQuestionRow(hook.course, NextInsert.m, NextInsert.l, NextInsert.k) IN
       /\ issued' = Append(issued, Req("insert", "quiz_questions", row.id, Outcome(ok), 0))
       /\ db' = IF ok THEN [db EXCEPT !.quiz_questions = @ \cup {row}] ELSE db
       /\ hook' = Advance(hook.next + 1)
       /\ UNCHANGED <<courses, isLoading, last>>

\* The result of the insert is not looked at.
CreateInsertResource(ok) ==
    /\ UNCHANGED <<edgeVars, extraction, mapped, quiz, clientVars>>
    /\ Inserting("resources")
    /\ Fault(ok)
    /\ LET row == ResourceRow(hook.course, NextInsert.m, NextInsert.l, NextInsert.k) IN
       /\ issued' = Append(issued, Req("insert", "resources", row.id, Outcome(ok), 0))
       /\ db' = IF ok THEN [db EXCEPT !.resources = @ \cup {row}] ELSE db
       /\ hook' = Advance(hook.next + 1)
       /\ UNCHANGED <<courses, isLoading, last>>

----------------------------------------------------------------------------
(* fetchCourses                                                            *)

\* fetchCourses returns to the operation that awaited it.
Return(fetch) ==
    /\ hook' = Idle
    /\ last' =
        IF hook.caller = "createCourse"
        THEN Ended("createCourse", "returned", fetch, hook.course)
        ELSE IF hook.caller = "updateLessonCompletion"
        THEN Ended("updateLessonCompletion", "done", fetch, 0)
        ELSE Ended("fetchCourses", "done", fetch, 0)

\* refetch, and the effect on [user]
FetchCourses ==
    /\ UNCHANGED <<edgeVars, extraction, mapped, quiz, clientVars>>
    /\ hook.op = "none"
    /\ hook' = [Idle EXCEPT !.op = "fetchCourses", !.pc = "fetchCourses",
                            !.caller = "fetchCourses"]
    /\ issued' = <<>>
    /\ last' = Ended("fetchCourses", "running", "none", 0)
    /\ UNCHANGED <<db, courses, isLoading, faults>>

\* setIsLoading(true), up to the await of the select on courses
FetchBegin ==
    /\ UNCHANGED <<edgeVars, extraction, mapped, quiz, clientVars>>
    /\ hook.pc = "fetchCourses"
    /\ isLoading' = TRUE
    /\ hook' = [hook EXCEPT !.pc = "selectCourses"]
    /\ UNCHANGED <<db, courses, issued, last, faults>>

\* catch: toast; finally: setIsLoading(false)
FetchSelectCourses(ok) ==
    /\ UNCHANGED <<edgeVars, extraction, mapped, quiz, clientVars>>
    /\ hook.pc = "selectCourses"
    /\ Fault(ok)
    /\ issued' = Append(issued, Req("select", "courses", <<>>, Outcome(ok), 0))
    /\ IF ok
       THEN /\ hook' = [hook EXCEPT !.pc = "loadCourses", !.pending = db.courses,
                                    !.loaded = {}]
            /\ UNCHANGED <<db, courses, isLoading, last>>
       ELSE /\ isLoading' = FALSE
            /\ Return("failed")
            /\ UNCHANGED <<db, courses>>

\* One element of the Promise.all over coursesData: the selects of its
\* modules and lessons (an error is thrown), of its quiz questions and
\* resources, then the write-back of the progress when it differs from the
\* stored one (the result of the update is not looked at).
FetchLoadCourse(row, ok, written) ==
    /\ UNCHANGED <<edgeVars, extraction, mapped, quiz, clientVars>>
    /\ hook.pc = "loadCourses"
    /\ row \in hook.pending
    /\ Fault(ok /\ written)
    /\ IF ok
       THEN LET course == CourseWithModules(db, row) IN
            /\ hook' = [hook EXCEPT !.pending = @ \ {row}, !.loaded = @ \cup {course}]
            /\ IF course.progress # row.progress
               THEN /\ issued' = Append(issued,
                          Req("update", "courses", <<row.id>>,
                              IF written THEN "ok" ELSE "unavailable", row.progress))
                    /\ db' = IF written
                             THEN [db EXCEPT !.courses =
                                     {IF x.id = row.id
                                      THEN [x EXCEPT !.progress = course.progress]
                                      ELSE x : x \in @}]
                             ELSE db
               ELSE /\ written
                    /\ UNCHANGED <<issued, db>>
            /\ UNCHANGED <<courses, isLoading, last>>
       ELSE /\ written
            /\ issued' = Append(issued, Req("select", "modules", <<row.id>>, "unavailable", 0))
            /\ isLoading' = FALSE
            /\ Return("failed")
            /\ UNCHANGED <<db, courses>>

\* setCourses(coursesWithModules), newest first; finally: setIsLoading(false)
FetchSetCourses ==
    /\ UNCHANGED <<edgeVars, extraction, mapped, quiz, clientVars>>
    /\ hook.pc = "loadCourses"
    /\ hook.pending = {}
    /\ courses' = OrderByCreatedDesc(hook.loaded)
    /\ isLoading' = FALSE
    /\ Return("loaded")
    /\ UNCHANGED <<db, issued, faults>>

----------------------------------------------------------------------------
(* deleteCourse                                                            *)

\* Mutant: the course is deleted before its quiz scores.
deleteCourseOrderCourseFirst == <<"courses", "quiz_scores">>

\* The tables deleteCourse deletes from, in program order.
deleteCourseOrder == <<"quiz_scores", "courses">>

\* One awaited delete of deleteCourse: it reports an error when it fails
\* in transport or the database rejects it.
DeleteStep(c, n, ok) ==
    LET table == deleteCourseOrder[n]
        done == DeleteFrom(db, table, c)
        result == IF ~ok THEN "unavailable" ELSE IF done.error THEN "rejected" ELSE "ok"
    IN
    /\ issued' = Append(IF n = 1 THEN <<>> ELSE issued,
                        Req("delete", table, <<c>>, result, 0))
    /\ db' = IF ok THEN done.db ELSE db
    /\ IF result # "ok"
       THEN \* catch: toast "Failed to delete course"
            /\ hook' = Idle
            /\ last' = Ended("deleteCourse", "failed", "none", c)
            /\ UNCHANGED courses
       ELSE IF n < Len(deleteCourseOrder)
       THEN /\ hook' = [Idle EXCEPT !.op = "deleteCourse", !.pc = "deleteCourse",
                                    !.arg = c, !.next = n + 1]
            /\ last' = Ended("deleteCourse", "running", "none", c)
            /\ UNCHANGED courses
       ELSE \* setCourses(prev => prev.filter(course => course.id !== courseId))
            /\ courses' = SelectSeq(courses, LAMBDA x : x.id # c)
            /\ hook' = Idle
            /\ last' = Ended("deleteCourse", "deleted", "none", c)
    /\ UNCHANGED isLoading

\* deleteCourse(courseId) up to the outcome of its first delete
DeleteCourseFirst(c, ok) ==
    /\ UNCHANGED <<edgeVars, extraction, mapped, quiz, clientVars>>
    /\ hook.op = "none"
    /\ c \in LocalIds
    /\ Fault(ok)
    /\ DeleteStep(c, 1, ok)

DeleteCourseSecond(ok) ==
    /\ UNCHANGED <<edgeVars, extraction, mapped, quiz, clientVars>>
    /\ hook.op = "deleteCourse" /\ hook.pc = "deleteCourse"
    /\ Fault(ok)
    /\ DeleteStep(hook.arg, hook.next, ok)

----------------------------------------------------------------------------
(* The other writers of the tables                                         *)

\* updateLessonCompletion: the update, then await fetchCourses()
UpdateLessonCompletion(l, completed, ok) ==
    /\ UNCHANGED <<edgeVars, extraction, mapped, quiz, clientVars>>
    /\ hook.op = "none"
    /\ l \in LocalLessonIds
    /\ Fault(ok)
    /\ issued' = <<Req("update", "lessons", l, Outcome(ok), 0)>>
    /\ IF ok
       THEN /\ db' = [db EXCEPT !.lessons =
                        {IF x.id = l THEN [x EXCEPT !.completed = completed] ELSE x :
                            x \in @}]
            /\ hook' = [Idle EXCEPT !.op = "updateLessonCompletion",
                                    !.pc = "fetchCourses",
                                    !.caller = "updateLessonCompletion"]
            /\ last' = Ended("updateLessonCompletion", "running", "none", 0)
       ELSE /\ db' = db
            /\ hook' = Idle
            /\ last' = Ended("updateLessonCompletion", "failed", "none", 0)
    /\ UNCHANGED <<courses, isLoading>>

\* useQuizScoring.saveQuizScore: the insert into quiz_scores; the foreign
\* keys need the lesson and its course.
SaveQuizScore(l, ok) ==
    /\ UNCHANGED <<edgeVars, extraction, mapped, quiz, clientVars>>
    /\ hook.op = "none"
    /\ l \in LocalLessonIds
    /\ Cardinality(db.quiz_scores) < MaxScores
    /\ Fault(ok)
    /\ LET row == QuizScoreRow(Cardinality(db.quiz_scores) + 1, l)
           held == /\ \E x \in db.lessons : x.id = l
                   /\ \E x \in db.courses : x.id = row.course_id
           result == IF ~ok THEN "unavailable" ELSE IF held THEN "ok" ELSE "rejected"
       IN
       /\ issued' = <<Req("insert", "quiz_scores", <<row.id>>, result, 0)>>
       /\ db' = IF result = "ok" THEN [db EXCEPT !.quiz_scores = @ \cup {row}] ELSE db
       /\ last' = Ended("saveQuizScore", IF result = "ok" THEN "done" ELSE "failed",
                        "none", row.course_id)
    /\ UNCHANGED <<courses, isLoading, hook>>

\* AITutor.sendMessage: the insert into tutor_chats after a tutor response
SendMessage(c, ok) ==
    /\ UNCHANGED <<edgeVars, extraction, mapped, quiz, clientVars>>
    /\ hook.op = "none"
    /\ c \in LocalIds
    /\ Cardinality(db.tutor_chats) < MaxChats
    /\ Fault(ok)
    /\ LET row == TutorChatRow(Cardinality(db.tutor_chats) + 1, c)
           held == \E x \in db.courses : x.id = c
           result == IF ~ok THEN "unavailable" ELSE IF held THEN "ok" ELSE "rejected"
       IN
       /\ issued' = <<Req("insert", "tutor_chats", <<row.id>>, result, 0)>>
       /\ db' = IF result = "ok" THEN [db EXCEPT !.tutor_chats = @ \cup {row}] ELSE db
       /\ last' = Ended("sendMessage", IF result = "ok" THEN "done" ELSE "failed",
                        "none", c)
    /\ UNCHANGED <<courses, isLoading, hook>>

\* The only call of updateLessonCompletion passes completed = true.
CompletedArgs == {TRUE}

HookNext ==
    \/ \E content \in Contents : \E ok \in BOOLEAN : CreateCourse(content, ok)
    \/ \E ok \in BOOLEAN : CreateInsertCourse(ok)
    \/ \E ok \in BOOLEAN : CreateInsertModule(ok)
    \/ \E ok \in BOOLEAN : CreateInsertLesson(ok)
    \/ \E ok \in BOOLEAN : CreateInsertQuizQuestion(ok)
    \/ \E ok \in BOOLEAN : CreateInsertResource(ok)
    \/ FetchCourses
    \/ FetchBegin
    \/ \E ok \in BOOLEAN : FetchSelectCourses(ok)
    \/ \E row \in hook.pending : \E ok, written \in BOOLEAN : FetchLoadCourse(row, ok, written)
    \/ FetchSetCourses
    \/ \E c \in LocalIds : \E ok \in BOOLEAN : DeleteCourseFirst(c, ok)
    \/ \E ok \in BOOLEAN : DeleteCourseSecond(ok)
    \/ \E l \in LocalLessonIds : \E completed \in CompletedArgs : \E ok \in BOOLEAN :
            UpdateLessonCompletion(l, completed, ok)
    \/ \E l \in LocalLessonIds : \E ok \in BOOLEAN : SaveQuizScore(l, ok)
    \/ \E c \in LocalIds : \E ok \in BOOLEAN : SendMessage(c, ok)

----------------------------------------------------------------------------
(* Extraction of JSON from the model text                                  *)
(*                                                                         *)
(* A text is a sequence of characters, each a string: an ASCII character   *)
(* stands for itself, but "BT" is a backtick and "LF" a line feed;         *)
(* "TAB" is a tab; "LDQUO" and "RDQUO" are U+201C                          *)
(* and U+201D, "LSQUO" and "RSQUO" U+2018 and U+2019, "NDASH" and "MDASH"  *)
(* U+2013 and U+2014, "ELLIPSIS" U+2026, "KANA" a character of the         *)
(* Japanese ranges and "EACUTE" any other non-ASCII character.             *)

\* \s
Whitespace == {" ", "LF", "TAB"}

\* String.prototype.trim
trim(s) ==
    LET ink == {i \in 1..Len(s) : s[i] \notin Whitespace} IN
    IF ink = {} THEN <<>>
    ELSE SubSeq(s, CHOOSE i \in ink : \A j \in ink : i <= j,
                   CHOOSE i \in ink : \A j \in ink : i >= j)

\* With F the fence of three backticks:
\* if (startsWith(F + 'json')) replace(/^Fjson\s*/, '').replace(/\s*F$/, '')
\* if (startsWith(F))          replace(/^F\s*/, '').replace(/\s*F$/, '')
removeCodeBlocks(s) ==
    LET fence == <<"BT", "BT", "BT">>
        startsWith(t, p) == Len(t) >= Len(p) /\ SubSeq(t, 1, Len(p)) = p
        rest(t, n) == SubSeq(t, n + 1, Len(t))
        \* the text after its leading whitespace
        lstrip(t) == IF trim(t) = <<>> THEN <<>>
                     ELSE rest(t, (CHOOSE i \in 1..Len(t) :
                                     /\ t[i] \notin Whitespace
                                     /\ \A j \in 1..(i - 1) : t[j] \in Whitespace) - 1)
        \* the text before its trailing whitespace
        rstrip(t) == IF trim(t) = <<>> THEN <<>>
                     ELSE SubSeq(t, 1, CHOOSE i \in 1..Len(t) :
                                     /\ t[i] \notin Whitespace
                                     /\ \A j \in (i + 1)..Len(t) : t[j] \in Whitespace)
        open(t, p) == lstrip(rest(t, Len(p)))
        close(t) == IF Len(t) >= 3 /\ SubSeq(t, Len(t) - 2, Len(t)) = fence
                    THEN rstrip(SubSeq(t, 1, Len(t) - 3))
                    ELSE t
        tagged == fence \o <<"j", "s", "o", "n">>
        first == IF startsWith(s, tagged) THEN close(open(s, tagged)) ELSE s
    IN IF startsWith(first, fence) THEN close(open(first, fence)) ELSE first

\* Mutant: nothing is cut around the braces.
jsonBoundariesKeepsText(s) == s

\* Mutant: the text after the last closing brace is kept.
jsonBoundariesKeepsTail(s) ==
    LET opens == {i \in 1..Len(s) : s[i] = "{"}
        jsonStart == CHOOSE i \in opens : \A j \in opens : i <= j
    IN IF opens # {} /\ jsonStart > 1 THEN SubSeq(s, jsonStart, Len(s)) ELSE s

\* indexOf('{') > 0: substring(jsonStart); lastIndexOf('}') > 0 and not the
\* last character: substring(0, jsonEnd + 1). Positions here count from 1.
jsonBoundaries(s) ==
    LET opens == {i \in 1..Len(s) : s[i] = "{"}
        jsonStart == CHOOSE i \in opens : \A j \in opens : i <= j
        a == IF opens # {} /\ jsonStart > 1 THEN SubSeq(s, jsonStart, Len(s)) ELSE s
        closes == {i \in 1..Len(a) : a[i] = "}"}
        jsonEnd == CHOOSE i \in closes : \A j \in closes : i >= j
    IN IF closes # {} /\ jsonEnd > 1 /\ jsonEnd < Len(a) THEN SubSeq(a, 1, jsonEnd) ELSE a

\* The chain of .replace(..., g) on characters: generate-course has all of
\* them, generate-roadmap-content the first four, the other handlers none.
cleanCharacters(h, s) ==
    LET basic(c) ==
            IF c \in {"LF", "TAB"} THEN <<>>
            ELSE IF c \in {"LDQUO", "RDQUO"} THEN <<"\"">>
            ELSE IF c \in {"LSQUO", "RSQUO"} THEN <<"'">>
            ELSE IF c \in {"NDASH", "MDASH"} THEN <<"-">>
            ELSE <<c>>
        full(c) ==
            IF c = "ELLIPSIS" THEN <<".", ".", ".">>
            ELSE IF c \in {"KANA", "EACUTE"} THEN <<>>
            ELSE basic(c)
    IN IF h = GenerateCourse THEN Flatten([i \in 1..Len(s) |-> full(s[i])])
       ELSE IF h = RoadmapContent THEN Flatten([i \in 1..Len(s) |-> basic(s[i])])
       ELSE s

\* The match of /"([^"]*)"([^",:}\]]*)"([^",:}\]]*)":/ that starts at i, as
\* the positions <<j, k, m>> of its second, third and fourth quote, or <<>>.
quoteMatch(s, i) ==
    LET quotes == {x \in (i + 1)..Len(s) : s[x] = "\""}
        nth(n) == CHOOSE x \in quotes : Cardinality({y \in quotes : y < x}) = n - 1
        plain(a, b) == \A x \in (a + 1)..(b - 1) : s[x] \notin {",", ":", "}", "]"}
    IN IF /\ s[i] = "\""
          /\ Cardinality(quotes) >= 3
          /\ plain(nth(1), nth(2))
          /\ plain(nth(2), nth(3))
          /\ nth(3) < Len(s)
          /\ s[nth(3) + 1] = ":"
       THEN <<nth(1), nth(2), nth(3)>>
       ELSE <<>>

\* .replace(/"([^"]*)"([^",:}\]]*)"([^",:}\]]*)":/g, '"$1\\"$2\\"$3":') from
\* position i on: matches are taken left to right and do not overlap.
RECURSIVE escapeQuotes(_, _)
escapeQuotes(s, i) ==
    IF i > Len(s) THEN <<>>
    ELSE LET q == quoteMatch(s, i) IN
         IF q = <<>> THEN <<s[i]>> \o escapeQuotes(s, i + 1)
         ELSE SubSeq(s, i, q[1] - 1) \o <<"\\", "\"">>
              \o SubSeq(s, q[1] + 1, q[2] - 1) \o <<"\\", "\"">>
              \o SubSeq(s, q[2] + 1, q[3] - 1) \o <<"\"", ":">>
              \o escapeQuotes(s, q[3] + 2)

\* Mutant: trailing commas are not repaired.
fixCommonIssuesKeepsCommas(s) == escapeQuotes(s, 1)

\* The speculative repairs of generate-course, in program order:
\* /,(\s*[}\]])/g -> '$1', /}(\s*){/g -> '},$1{', /](\s*)\[/g -> '],$1[',
\* then the quote repair.
fixCommonIssues(s) ==
    LET \* t[i] is followed by optional whitespace and then a character of cs
        before(t, i, cs) ==
            \E k \in (i + 1)..Len(t) :
                /\ t[k] \in cs
                /\ \A j \in (i + 1)..(k - 1) : t[j] \in Whitespace
        trailing == Flatten([i \in 1..Len(s) |->
                        IF s[i] = "," /\ before(s, i, {"}", "]"}) THEN <<>> ELSE <<s[i]>>])
        objects == Flatten([i \in 1..Len(trailing) |->
                        IF trailing[i] = "}" /\ before(trailing, i, {"{"})
                        THEN <<"}", ",">> ELSE <<trailing[i]>>])
        arrays == Flatten([i \in 1..Len(objects) |->
                        IF objects[i] = "]" /\ before(objects, i, {"["})
                        THEN <<"]", ",">> ELSE <<objects[i]>>])
    IN escapeQuotes(arrays, 1)

\* JSON.parse. A value is [t, v]: t the kind ("obj", "arr", "str", "num",
\* "lit"), v its members [k, v] in text order, its elements, or its
\* characters. A parse step yields [ok, val, next]: next is the position
\* after the value.
ParseFail == [ok |-> FALSE, val |-> [t |-> "none", v |-> <<>>], next |-> 0]

\* The first position from i on that holds no JSON whitespace.
skipWs(s, i) ==
    CHOOSE j \in i..(Len(s) + 1) :
        /\ j = Len(s) + 1 \/ s[j] \notin Whitespace
        /\ \A x \in i..(j - 1) : s[x] \in Whitespace

\* The characters of a string from position i (after its opening quote).
RECURSIVE parseString(_, _, _)
parseString(s, i, acc) ==
    IF i > Len(s) THEN ParseFail
    ELSE IF s[i] = "\"" THEN [ok |-> TRUE, val |-> [t |-> "str", v |-> acc], next |-> i + 1]
    ELSE IF s[i] = "\\"
        THEN IF i < Len(s) /\ s[i + 1] \in {"\"", "\\", "/"}
             THEN parseString(s, i + 2, Append(acc, s[i + 1]))
             ELSE ParseFail
    ELSE IF s[i] \in {"LF", "TAB"} THEN ParseFail
    ELSE parseString(s, i + 1, Append(acc, s[i]))

\* A number (digits, with an optional sign and fraction) or one of the
\* literals null, true, false at position i.
parseScalar(s, i) ==
    LET digits == {"0", "1", "2", "3", "4", "5", "6", "7", "8", "9"}
        run(a) == CHOOSE j \in a..(Len(s) + 1) :
                    /\ j = Len(s) + 1 \/ s[j] \notin digits
                    /\ \A x \in a..(j - 1) : s[x] \in digits
        a == IF s[i] = "-" THEN i + 1 ELSE i
        b == run(a)
        c == IF b < Len(s) /\ s[b] = "." /\ run(b + 1) > b + 1 THEN run(b + 1) ELSE b
        word(w) == i + Len(w) - 1 <= Len(s) /\ SubSeq(s, i, i + Len(w) - 1) = w
        literals == {<<"n", "u", "l", "l">>, <<"t", "r", "u", "e">>,
                     <<"f", "a", "l", "s", "e">>}
    IN IF b > a /\ (b = a + 1 \/ s[a] # "0")
       THEN [ok |-> TRUE, val |-> [t |-> "num", v |-> SubSeq(s, i, c - 1)], next |-> c]
       ELSE IF \E w \in literals : word(w)
       THEN LET w == CHOOSE w \in literals : word(w) IN
            [ok |-> TRUE, val |-> [t |-> "lit", v |-> w], next |-> i + Len(w)]
       ELSE ParseFail

RECURSIVE parseValue(_, _)
RECURSIVE parseItems(_, _, _, _)

\* The members of an object (kind "obj") or the elements of an array (kind
\* "arr") from position i on; acc holds the ones read so far.
parseItems(s, i, acc, kind) ==
    LET close == IF kind = "obj" THEN "}" ELSE "]"
        a == skipWs(s, i)
        key == IF a <= Len(s) /\ s[a] = "\"" THEN parseString(s, a + 1, <<>>) ELSE ParseFail
        colon == skipWs(s, key.next)
        item == IF kind = "arr" THEN parseValue(s, a)
                ELSE IF key.ok /\ colon <= Len(s) /\ s[colon] = ":"
                THEN parseValue(s, colon + 1)
                ELSE ParseFail
        b == skipWs(s, item.next)
        read == Append(acc, IF kind = "arr" THEN item.val
                            ELSE [k |-> key.val.v, v |-> item.val])
    IN IF a > Len(s) THEN ParseFail
       ELSE IF s[a] = close /\ acc = <<>>
       THEN [ok |-> TRUE, val |-> [t |-> kind, v |-> <<>>], next |-> a + 1]
       ELSE IF ~item.ok \/ b > Len(s) THEN ParseFail
       ELSE IF s[b] = close
       THEN [ok |-> TRUE, val |-> [t |-> kind, v |-> read], next |-> b + 1]
       ELSE IF s[b] = "," /\ skipWs(s, b + 1) <= Len(s) /\ s[skipWs(s, b + 1)] # close
       THEN parseItems(s, b + 1, read, kind)
       ELSE ParseFail

parseValue(s, i) ==
    LET a == skipWs(s, i) IN
    IF a > Len(s) THEN ParseFail
    ELSE IF s[a] = "{" THEN parseItems(s, a + 1, <<>>, "obj")
    ELSE IF s[a] = "[" THEN parseItems(s, a + 1, <<>>, "arr")
    ELSE IF s[a] = "\"" THEN parseString(s, a + 1, <<>>)
    ELSE parseScalar(s, a)

\* JSON.parse(text): the value, or a SyntaxError (ok = FALSE).
JSONparse(s) ==
    LET r == parseValue(s, 1) IN
    IF r.ok /\ skipWs(s, r.next) > Len(s) THEN [ok |-> TRUE, val |-> r.val]
    ELSE [ok |-> FALSE, val |-> ParseFail.val]

\* The value of the last member named key of an object, or the value of
\* kind "none" (undefined).
Member(val, key) ==
    LET at == {i \in 1..Len(val.v) : val.v[i].k = key} IN
    IF val.t # "obj" \/ at = {} THEN ParseFail.val
    ELSE val.v[CHOOSE i \in at : \A j \in at : i >= j].v

\* The check each handler makes on the parsed value before it uses it:
\* modules is an array; recommendations is an array that map can read;
\* motivational_message is truthy; generate-roadmap-content checks nothing.
structureOK(h, val) ==
    LET modules == Member(val, <<"m", "o", "d", "u", "l", "e", "s">>)
        recommendations ==
            Member(val, <<"r", "e", "c", "o", "m", "m", "e", "n", "d", "a", "t", "i", "o", "n", "s">>)
        message ==
            Member(val, <<"m", "o", "t", "i", "v", "a", "t", "i", "o", "n", "a", "l", "_",
                          "m", "e", "s", "s", "a", "g", "e">>)
        falsy == {[t |-> "none", v |-> <<>>], [t |-> "str", v |-> <<>>],
                  [t |-> "num", v |-> <<"0">>], [t |-> "lit", v |-> <<"n", "u", "l", "l">>],
                  [t |-> "lit", v |-> <<"f", "a", "l", "s", "e">>]}
    IN CASE h = GenerateCourse -> modules.t = "arr"
         [] h = LessonRecommendations ->
                /\ recommendations.t = "arr"
                /\ \A i \in 1..Len(recommendations.v) :
                    recommendations.v[i] # [t |-> "lit", v |-> <<"n", "u", "l", "l">>]
         [] h = AdaptiveFeedback -> message \notin falsy
         [] OTHER -> TRUE

\* The steps each handler applies to rawContent before JSON.parse.
CleaningSteps(h) ==
    CASE h = GenerateCourse ->
            <<"removeCodeBlocks", "jsonBoundaries", "cleanCharacters", "fixCommonIssues">>
      [] h = RoadmapContent -> <<"removeCodeBlocks", "jsonBoundaries", "cleanCharacters">>
      [] OTHER -> <<"removeCodeBlocks", "jsonBoundaries">>

CleaningStep(h, step, s) ==
    CASE step = "removeCodeBlocks" -> removeCodeBlocks(s)
      [] step = "jsonBoundaries" -> jsonBoundaries(s)
      [] step = "cleanCharacters" -> cleanCharacters(h, s)
      [] OTHER -> fixCommonIssues(s)

Quoted(chars) == <<"\"">> \o chars \o <<"\"">>

Object(k, v) == <<"{">> \o Quoted(k) \o <<":">> \o v \o <<"}">>

\* Model texts that are one valid JSON object and nothing else.
Objects ==
    LET contents == {<<"h", "i">>, <<"LDQUO", "h", "i", "RDQUO">>, <<"a", "NDASH", "b">>,
                     <<"c", "a", "f", "EACUTE">>, <<"x", ",", "}">>, <<"}", "{">>,
                     <<"\\", "\"", "h", "i", "\\", "\"">>}
        one == Object(<<"a">>, <<"1">>)
        values == {<<"1">>, <<"0">>, <<"n", "u", "l", "l">>, <<"[", "]">>,
                   <<"[", "1", ",", "2", "]">>, one,
                   <<"[">> \o one \o <<",">> \o one \o <<"]">>}
                  \cup {Quoted(c) : c \in contents}
        keys == {<<"a">>, <<"m", "o", "d", "u", "l", "e", "s">>}
    IN {Object(k, v) : k \in keys, v \in values}
       \cup {<<"{", "LF", " ">> \o Quoted(<<"a">>) \o <<":", " ">> \o v \o <<"LF", "}">> :
                v \in {<<"1">>, <<"[", "1", ",", "2", "]">>, Quoted(<<"h", "i">>)}}

\* The texts made from object o by one trailing comma (and whitespace gap)
\* before its closing brace, or before the closing bracket of a non-empty
\* array that is its last value.
TrailingCommas(o) ==
    LET n == Len(o)
        at(i, gap) == SubSeq(o, 1, i - 1) \o <<",">> \o gap \o SubSeq(o, i, n)
        final == CHOOSE i \in 1..(n - 1) :
                    o[i] \notin Whitespace /\ \A j \in (i + 1)..(n - 1) : o[j] \in Whitespace
    IN {at(n, gap) : gap \in {<<>>, <<" ">>}}
       \cup IF o[final] = "]" /\ o[final - 1] # "[" THEN {at(final, <<>>)} ELSE {}

\* What may surround the object in the model text, as <<before, after>>:
\* a fenced code block with the json tag, no tag or another tag.
Fences ==
    LET F == <<"BT", "BT", "BT">> IN
    {<<F \o <<"j", "s", "o", "n", "LF">>, <<"LF">> \o F>>,
     <<F \o <<"LF">>, <<"LF">> \o F>>,
     <<F \o <<"j", "s", "LF">>, <<"LF">> \o F>>,
     <<F \o <<"j", "s", "o", "n", " ">>, <<" ">> \o F>>}

\* Prose without brace characters (the empty prose included).
Proses ==
    LET sure == <<"S", "u", "r", "e", "!", " ">>
        ok == <<" ", "o", "k", ".">>
        F == <<"BT", "BT", "BT">>
    IN {<<<<>>, <<>>>>, <<sure, <<>>>>, <<<<>>, ok>>, <<sure, ok>>, <<<<" ">>, <<"LF">>>>,
        <<sure \o F \o <<"j", "s", "o", "n", "LF">>, <<"LF">> \o F>>,
        <<<<"[", "1", "]", ":", " ">>, <<" ", "\"", "]">>>>}

\* Model texts without any brace character.
BraceFree ==
    {<<>>, <<"n", "o", "t", " ", "j", "s", "o", "n">>, Quoted(<<"n", "o", "t">>),
     <<"4", "2">>, <<"[", "]">>, <<"n", "u", "l", "l">>,
     <<"BT", "BT", "BT", "LF", "[", "1", "]", "LF", "BT", "BT", "BT">>}

\* groqData.choices[0].message.content
ModelTexts ==
    {w[1] \o o \o w[2] :
        w \in Fences \cup Proses, o \in Objects \cup UNION {TrailingCommas(x) : x \in Objects}}
    \cup BraceFree

NoExtraction ==
    [handler |-> GenerateCourse, content |-> <<>>, text |-> <<>>, step |-> 0,
     pc |-> "idle", parsed |-> [ok |-> FALSE, val |-> ParseFail.val], outcome |-> "none"]

\* rawContent = groqData.choices[0].message.content.trim()
ReceiveContent(h, t) ==
    /\ extraction.pc = "idle"
    /\ extraction' = [NoExtraction EXCEPT !.handler = h, !.content = t, !.text = trim(t),
                                         !.step = 1, !.pc = "cleaning"]
    /\ UNCHANGED <<edgeVars, hookVars, mapped, quiz, clientVars>>

\* The next cleaning step of the handler rewrites cleanedContent.
Clean ==
    /\ extraction.pc = "cleaning"
    /\ extraction.step <= Len(CleaningSteps(extraction.handler))
    /\ extraction' =
        [extraction EXCEPT
            !.text = CleaningStep(extraction.handler,
                                  CleaningSteps(extraction.handler)[extraction.step], @),
            !.step = @ + 1]
    /\ UNCHANGED <<edgeVars, hookVars, mapped, quiz, clientVars>>

\* JSON.parse and the structure check: the parsed value is the content of
\* the response, or the catch substitutes the hard-coded fallback.
Parse ==
    /\ extraction.pc = "cleaning"
    /\ extraction.step > Len(CleaningSteps(extraction.handler))
    /\ LET parsed == JSONparse(extraction.text) IN
       extraction' =
        [extraction EXCEPT
            !.parsed = parsed,
            !.outcome = IF parsed.ok /\ structureOK(extraction.handler, parsed.val)
                        THEN "model" ELSE "fallback",
            !.pc = "done"]
    /\ UNCHANGED <<edgeVars, hookVars, mapped, quiz, clientVars>>

\* The Response is returned; the invocation keeps nothing.
ExtractionEnds ==
    /\ extraction.pc = "done"
    /\ extraction' = NoExtraction
    /\ UNCHANGED <<edgeVars, hookVars, mapped, quiz, clientVars>>

ExtractNext ==
    \/ \E h \in {GenerateCourse, LessonRecommendations, AdaptiveFeedback, RoadmapContent} :
        \E t \in ModelTexts : ReceiveContent(h, t)
    \/ Clean
    \/ Parse
    \/ ExtractionEnds

----------------------------------------------------------------------------
(* generate-lesson-recommendations: the parsed array and its defaults      *)
(*                                                                         *)
(* A JavaScript value is a record [t, n, s]: t its type, n the number in   *)
(* hundredths (0.7 is 70) when t = "number", s the text when               *)
(* t = "string".  NaN has its own t.                                       *)

Undefined == [t |-> "undefined", n |-> 0, s |-> ""]

Null == [t |-> "null", n |-> 0, s |-> ""]

NaN == [t |-> "NaN", n |-> 0, s |-> ""]

Num(n) == [t |-> "number", n |-> n, s |-> ""]

Str(s) == [t |-> "string", n |-> 0, s |-> s]

\* The strings of the model that read as a number, with that number.
NumericStrings == [s \in {"0.9", "1.5"} |-> IF s = "0.9" THEN 90 ELSE 150]

\* difficulty: rec.difficulty || 'Intermediate'
\* relevanceScore: Math.min(Math.max(rec.relevanceScore || 0.8, 0.7), 1.0)
mapRecommendation(rec) ==
    LET Truthy(x) == CASE x.t = "number" -> x.n # 0
                       [] x.t = "string" -> x.s # ""
                       [] OTHER -> FALSE
        Or(x, d) == IF Truthy(x) THEN x ELSE d
        ToNumber(x) == CASE x.t = "number" -> x
                         [] x.t = "string" ->
                                IF x.s \in DOMAIN NumericStrings THEN Num(NumericStrings[x.s])
                                ELSE IF x.s = "" THEN Num(0) ELSE NaN
                         [] x.t = "null" -> Num(0)
                         [] OTHER -> NaN
        MathMax(a, b) == LET x == ToNumber(a)
                             y == ToNumber(b)
                         IN IF x.t = "NaN" \/ y.t = "NaN" THEN NaN
                            ELSE IF x.n >= y.n THEN x ELSE y
        MathMin(a, b) == LET x == ToNumber(a)
                             y == ToNumber(b)
                         IN IF x.t = "NaN" \/ y.t = "NaN" THEN NaN
                            ELSE IF x.n <= y.n THEN x ELSE y
    IN [difficulty |-> Or(rec.difficulty, Str("Intermediate")),
        relevanceScore |-> MathMin(MathMax(Or(rec.relevanceScore, Num(80)), Num(70)), Num(100)),
        source |-> "ai-generated"]

MaxRecs == 2

\* Elements of a parsed recommendations array: objects, and null.
RecommendationElements ==
    [t : {"object"},
     difficulty : {Undefined, Str("Beginner"), Str("")},
     relevanceScore : {Undefined, Null, Str("high"), Str("0.9"), Str("1.5")}
                      \cup {Num(n) : n \in {0 - 20, 0, 50, 70, 85, 100, 150}}]
    \cup {[t |-> "null", difficulty |-> Undefined, relevanceScore |-> Undefined]}

RecommendationArrays ==
    UNION {[1..n -> RecommendationElements] : n \in 0..MaxRecs}

\* getLessonTemplatesForCategory: difficulty and baseRelevance of the three
\* templates of each category; a category without templates gets general.
getLessonTemplatesForCategory(category) ==
    LET T(difficulty, baseRelevance) ==
            [difficulty |-> difficulty, baseRelevance |-> baseRelevance]
    IN CASE category = "spanish" ->
                <<T("Advanced", 90), T("Advanced", 80), T("Intermediate", 75)>>
         [] category = "webdev" ->
                <<T("Advanced", 90), T("Advanced", 80), T("Advanced", 85)>>
         [] category = "programming" ->
                <<T("Advanced", 90), T("Advanced", 85), T("Advanced", 80)>>
         [] OTHER ->
                <<T("Advanced", 80), T("Advanced", 70), T("Advanced", 75)>>

\* Categories analyzeCourseCategory can return; design has no templates.
Categories == {"spanish", "webdev", "programming", "design"}

\* getFallbackRecommendations: templates.slice(0, requestedCount).map(...)
\* with the adjustment of baseRelevance for the performance level.
fallbackRecommendations(category, averageQuizScore, requestedCount) ==
    LET Below(x, n) == (x.t = "number" /\ x.n < n) \/ (x.t = "null" /\ 0 < n)
        Above(x, n) == x.t = "number" /\ x.n > n
        performanceLevel == IF Below(averageQuizScore, 600) THEN "beginner"
                            ELSE IF Above(averageQuizScore, 800) THEN "advanced"
                            ELSE "intermediate"
        templates == getLessonTemplatesForCategory(category)
        Min(a, b) == IF a <= b THEN a ELSE b
        relevanceScore(template) ==
            template.baseRelevance
            + (CASE performanceLevel = "beginner" /\ template.difficulty = "Beginner" -> 20
                 [] performanceLevel = "beginner" /\ template.difficulty = "Advanced" -> 0 - 30
                 [] performanceLevel = "advanced" /\ template.difficulty = "Advanced" -> 20
                 [] performanceLevel = "advanced" /\ template.difficulty = "Beginner" -> 0 - 20
                 [] OTHER -> 0)
    IN [i \in 1..Min(Len(templates), requestedCount) |->
            [difficulty |-> Str(templates[i].difficulty),
             relevanceScore |-> Num(relevanceScore(templates[i])),
             source |-> "curated"]]

\* The fields of the request body that getFallbackRecommendations reads,
\* courseTitle through its category.
RecommendationRequests ==
    [category : Categories,
     averageQuizScore : {Undefined, Num(500), Num(700), Num(900)},
     requestedCount : {1, 6}]

NoRecommendations ==
    [pc |-> "idle", recs |-> <<>>, out |-> <<>>, outcome |-> "none",
     request |-> [category |-> "general", averageQuizScore |-> Undefined,
                  requestedCount |-> 6]]

\* serve destructures the request body.
ReceiveRecommendationRequest(req) ==
    /\ mapped.pc = "idle"
    /\ mapped' = [NoRecommendations EXCEPT !.pc = "received", !.request = req]
    /\ UNCHANGED <<edgeVars, hookVars, extraction, quiz, clientVars>>

\* Without an API key, or when the call to the model fails, serve answers
\* with getFallbackRecommendations.
ModelUnavailable ==
    /\ mapped.pc = "received"
    /\ mapped' = [mapped EXCEPT !.pc = "done", !.outcome = "fallback",
                        !.out = fallbackRecommendations(mapped.request.category,
                                    mapped.request.averageQuizScore,
                                    mapped.request.requestedCount)]
    /\ UNCHANGED <<edgeVars, hookVars, extraction, quiz, clientVars>>

\* JSON.parse has returned an object whose recommendations is the array recs.
ParseRecommendations(recs) ==
    /\ mapped.pc = "received"
    /\ mapped' = [mapped EXCEPT !.pc = "parsed", !.recs = recs]
    /\ UNCHANGED <<edgeVars, hookVars, extraction, quiz, clientVars>>

\* recommendations.map(...): reading a property of a null element throws,
\* the catch rethrows and serve answers with getFallbackRecommendations.
MapRecommendations ==
    /\ mapped.pc = "parsed"
    /\ IF \E i \in 1..Len(mapped.recs) : mapped.recs[i].t = "null"
       THEN mapped' = [mapped EXCEPT !.pc = "done", !.outcome = "fallback",
                            !.out = fallbackRecommendations(mapped.request.category,
                                        mapped.request.averageQuizScore,
                                        mapped.request.requestedCount)]
       ELSE mapped' = [mapped EXCEPT !.pc = "done", !.outcome = "model",
                            !.out = [i \in 1..Len(mapped.recs) |->
                                        mapRecommendation(mapped.recs[i])]]
    /\ UNCHANGED <<edgeVars, hookVars, extraction, quiz, clientVars>>

RecommendationsReturned ==
    /\ mapped.pc = "done"
    /\ mapped' = NoRecommendations
    /\ UNCHANGED <<edgeVars, hookVars, extraction, quiz, clientVars>>

RecommendNext ==
    \/ \E req \in RecommendationRequests : ReceiveRecommendationRequest(req)
    \/ ModelUnavailable
    \/ \E recs \in RecommendationArrays : ParseRecommendations(recs)
    \/ MapRecommendations
    \/ RecommendationsReturned

----------------------------------------------------------------------------
(* QuizModal                                                               *)
(*                                                                         *)
(* Strings are sequences of characters, as in the extraction.              *)

toLowerCase(s) ==
    LET UpperCase == <<"A", "B", "C", "D", "E", "F", "G", "H", "I", "J", "K", "L", "M",
                       "N", "O", "P", "Q", "R", "S", "T", "U", "V", "W", "X", "Y", "Z">>
        LowerCase == <<"a", "b", "c", "d", "e", "f", "g", "h", "i", "j", "k", "l", "m",
                       "n", "o", "p", "q", "r", "s", "t", "u", "v", "w", "x", "y", "z">>
    IN [i \in 1..Len(s) |->
            IF \E k \in 1..Len(UpperCase) : UpperCase[k] = s[i]
            THEN LowerCase[CHOOSE k \in 1..Len(UpperCase) : UpperCase[k] = s[i]]
            ELSE s[i]]

\* Mutant: the two strings are compared as they are.
fallbackCompareExact(userAnswer, correctAnswer) == userAnswer = correctAnswer

\* userAnswer.trim().toLowerCase() === correctAnswer.trim().toLowerCase()
fallbackCompare(userAnswer, correctAnswer) ==
    toLowerCase(trim(userAnswer)) = toLowerCase(trim(correctAnswer))

\* A missing correct_answer, or the text undefined, gives the first option.
getCorrectAnswer(question) ==
    LET first == IF Len(question.options) > 0 THEN question.options[1] ELSE <<>>
    IN IF question.correct_answer = <<>> THEN first
       ELSE IF question.correct_answer = <<"u", "n", "d", "e", "f", "i", "n", "e", "d">>
            THEN first
            ELSE question.correct_answer

\* The guard of validateAnswerWithAI: with an empty argument no request is made.
needsRequest(userAnswer, question, correctAnswer) ==
    userAnswer # <<>> /\ question # <<>> /\ correctAnswer # <<>>

\* What validateAnswerWithAI returns once invoke has settled with outcome:
\* data.isCorrect, or the comparison when invoke reports an error or throws.
validateAnswerWithAI(outcome, userAnswer, correctAnswer) ==
    CASE outcome = "correct" -> TRUE
      [] outcome = "incorrect" -> FALSE
      [] OTHER -> fallbackCompare(userAnswer, correctAnswer)

MaxSelects == 3

Quizzes ==
    LET text == <<"q", "?">>
        q1 == [question |-> text,
               options |-> << <<"a">>, <<"A", " ">>, <<"b">> >>,
               correct_answer |-> <<"a">>]
        q2 == [question |-> <<>>,
               options |-> << <<"x">>, <<"X">> >>,
               correct_answer |-> <<"x">>]
        q3 == [question |-> text,
               options |-> << <<"y">>, <<"n">> >>,
               correct_answer |-> <<>>]
    IN {<<q1>>, <<q1, q3>>, <<q2, q1>>}

\* The state of the modal before it is first opened.  pending holds the
\* invoke calls in flight, requests counts the calls made since the quiz was
\* opened, selected counts the selections made on each question, validated is
\* what validateAnswerWithAI returned last, feedbackFor the question and
\* answer the handleAnswerSelect call that last set the feedback was made for.
NoQuiz ==
    [isOpen |-> FALSE, questions |-> <<>>, currentQuestionIndex |-> 0,
     userAnswers |-> <<>>, showAnswerFeedback |-> FALSE,
     currentAnswerCorrect |-> "null", showResults |-> FALSE,
     isCalculatingResults |-> FALSE, finalScore |-> 0,
     answerValidationResults |-> <<>>,
     calc |-> [active |-> FALSE, index |-> 0, score |-> 0, results |-> <<>>,
               answers |-> <<>>],
     pending |-> {}, requests |-> 0, selected |-> <<>>,
     validated |-> [via |-> "none", userAnswer |-> <<>>, correctAnswer |-> <<>>,
                    isCorrect |-> FALSE],
     feedbackFor |-> [index |-> 0, userAnswer |-> <<>>]]

\* useEffect on isOpen: resetQuiz.
OpenQuiz(questions) ==
    /\ ~quiz.isOpen
    /\ quiz.pending = {}
    /\ quiz' = [NoQuiz EXCEPT !.isOpen = TRUE, !.questions = questions,
                    !.userAnswers = [i \in 1..Len(questions) |-> <<>>],
                    !.selected = [i \in 1..Len(questions) |-> 0]]
    /\ UNCHANGED <<edgeVars, hookVars, extraction, mapped, clientVars>>

\* An option button; the buttons are disabled while feedback is shown.
handleAnswerSelect(selectedAnswer) ==
    /\ quiz.isOpen /\ ~quiz.showResults /\ ~quiz.showAnswerFeedback
    /\ Sum(quiz.selected) < MaxSelects
    /\ LET i == quiz.currentQuestionIndex + 1
           currentQuestion == quiz.questions[i]
           correctAnswer == getCorrectAnswer(currentQuestion)
           answered == [quiz EXCEPT !.userAnswers[i] = selectedAnswer,
                                    !.selected[i] = @ + 1]
       IN /\ \E k \in 1..Len(currentQuestion.options) :
                currentQuestion.options[k] = selectedAnswer
          /\ IF needsRequest(selectedAnswer, currentQuestion.question, correctAnswer)
             THEN quiz' = [answered EXCEPT
                    !.requests = @ + 1,
                    !.pending = @ \cup {[id |-> quiz.requests + 1, kind |-> "select",
                                          index |-> quiz.currentQuestionIndex,
                                          userAnswer |-> selectedAnswer,
                                          correctAnswer |-> correctAnswer]}]
             ELSE LET isCorrect == fallbackCompare(selectedAnswer, correctAnswer)
                  IN quiz' = [answered EXCEPT
                        !.validated = [via |-> "local", userAnswer |-> selectedAnswer,
                                       correctAnswer |-> correctAnswer,
                                       isCorrect |-> isCorrect],
                        !.currentAnswerCorrect = IF isCorrect THEN "true" ELSE "false",
                        !.showAnswerFeedback = TRUE,
                        !.feedbackFor = [index |-> quiz.currentQuestionIndex,
                                         userAnswer |-> selectedAnswer]]
    /\ UNCHANGED <<edgeVars, hookVars, extraction, mapped, clientVars>>

\* The Next button, shown on every question but the last.
handleNext ==
    /\ quiz.isOpen /\ ~quiz.showResults
    /\ quiz.currentQuestionIndex < Len(quiz.questions) - 1
    /\ quiz.userAnswers[quiz.currentQuestionIndex + 1] # <<>>
    /\ quiz' = [quiz EXCEPT !.showAnswerFeedback = FALSE,
                            !.currentAnswerCorrect = "null",
                            !.currentQuestionIndex = @ + 1]
    /\ UNCHANGED <<edgeVars, hookVars, extraction, mapped, clientVars>>

handlePrevious ==
    /\ quiz.isOpen /\ ~quiz.showResults
    /\ quiz.currentQuestionIndex > 0
    /\ quiz' = [quiz EXCEPT !.showAnswerFeedback = FALSE,
                            !.currentAnswerCorrect = "null",
                            !.currentQuestionIndex = @ - 1]
    /\ UNCHANGED <<edgeVars, hookVars, extraction, mapped, clientVars>>

\* The loop of calculateFinalScore from position c.index up to its next
\* await of a request, or to the end and the setters of
\* calculateAndShowResults.
RECURSIVE calculateFinalScore(_, _)
calculateFinalScore(q, c) ==
    IF c.index = Len(q.questions)
    THEN [q EXCEPT !.answerValidationResults = c.results,
                   !.finalScore = c.score,
                   !.showResults = TRUE,
                   !.isCalculatingResults = FALSE,
                   !.calc = NoQuiz.calc]
    ELSE LET question == q.questions[c.index + 1]
             userAnswer == c.answers[c.index + 1]
             correctAnswer == getCorrectAnswer(question)
             isCorrect == fallbackCompare(userAnswer, correctAnswer)
         IN IF needsRequest(userAnswer, question.question, correctAnswer)
            THEN [q EXCEPT !.calc = c,
                           !.requests = @ + 1,
                           !.pending = @ \cup {[id |-> q.requests + 1, kind |-> "final",
                                                 index |-> c.index,
                                                 userAnswer |-> userAnswer,
                                                 correctAnswer |-> correctAnswer]}]
            ELSE calculateFinalScore(
                    [q EXCEPT !.validated = [via |-> "local", userAnswer |-> userAnswer,
                                             correctAnswer |-> correctAnswer,
                                             isCorrect |-> isCorrect]],
                    [c EXCEPT !.index = @ + 1,
                              !.score = IF isCorrect THEN @ + 1 ELSE @,
                              !.results = Append(@, isCorrect)])

\* The Finish Quiz button, shown on the last question.
calculateAndShowResults ==
    /\ quiz.isOpen /\ ~quiz.showResults
    /\ quiz.currentQuestionIndex = Len(quiz.questions) - 1
    /\ quiz.userAnswers[quiz.currentQuestionIndex + 1] # <<>>
    /\ ~quiz.isCalculatingResults
    /\ quiz' = calculateFinalScore(
                    [quiz EXCEPT !.isCalculatingResults = TRUE],
                    [active |-> TRUE, index |-> 0, score |-> 0, results |-> <<>>,
                     answers |-> quiz.userAnswers])
    /\ UNCHANGED <<edgeVars, hookVars, extraction, mapped, clientVars>>

\* supabase.functions.invoke('validate-quiz-answer') settles for a request p.
ValidationSettles(outcome) ==
    \E p \in quiz.pending :
    /\ LET isCorrect == validateAnswerWithAI(outcome, p.userAnswer, p.correctAnswer)
           settled == [quiz EXCEPT
                !.pending = @ \ {p},
                !.validated = [via |-> outcome, userAnswer |-> p.userAnswer,
                               correctAnswer |-> p.correctAnswer,
                               isCorrect |-> isCorrect]]
       IN IF p.kind = "select"
          THEN quiz' = [settled EXCEPT
                    !.currentAnswerCorrect = IF isCorrect THEN "true" ELSE "false",
                    !.showAnswerFeedback = TRUE,
                    !.feedbackFor = [index |-> p.index, userAnswer |-> p.userAnswer]]
          ELSE quiz' = calculateFinalScore(settled,
                    [quiz.calc EXCEPT !.index = @ + 1,
                                      !.score = IF isCorrect THEN @ + 1 ELSE @,
                                      !.results = Append(@, isCorrect)])
    /\ UNCHANGED <<edgeVars, hookVars, extraction, mapped, clientVars>>

\* onClose: the parent sets isOpen to false.
CloseQuiz ==
    /\ quiz.isOpen
    /\ quiz' = [quiz EXCEPT !.isOpen = FALSE]
    /\ UNCHANGED <<edgeVars, hookVars, extraction, mapped, clientVars>>

QuizNext ==
    \/ \E questions \in Quizzes : OpenQuiz(questions)
    \/ \E selectedAnswer \in {<<"a">>, <<"A", " ">>, <<"b">>, <<"x">>, <<"X">>, <<"y">>, <<"n">>} :
            handleAnswerSelect(selectedAnswer)
    \/ handleNext
    \/ handlePrevious
    \/ calculateAndShowResults
    \/ \E outcome \in {"correct", "incorrect", "error", "throw"} : ValidationSettles(outcome)
    \/ CloseQuiz

----------------------------------------------------------------------------
(* CourseViewer, with QuizModal.handleQuizComplete and saveQuizScore       *)
(*                                                                         *)
(* course[m] is the number of lessons of module m; the indices are the     *)
(* 0-based indices of the component.  marked holds the lessons handed to   *)
(* onLessonComplete with the path that did it, scored the lessons a        *)
(* quiz_scores row was inserted for, saves counts the calls of             *)
(* saveQuizScore and save is how the last one ended.                       *)

MaxSaves == 2

ViewerCourses == UNION {[1..n -> 1..MaxLessons] : n \in 1..MaxModules}

NoViewer ==
    [isOpen |-> FALSE, course |-> <<>>, currentModuleIndex |-> 0,
     currentLessonIndex |-> 0, showQuiz |-> FALSE, showCheckpoint |-> FALSE,
     isQuizCompleted |-> FALSE, completing |-> FALSE, marked |-> {},
     scored |-> {}, saves |-> 0, save |-> "none"]

\* currentModule?.lessons[currentLessonIndex] is defined
currentLesson(v) ==
    /\ v.currentModuleIndex < Len(v.course)
    /\ v.currentLessonIndex < v.course[v.currentModuleIndex + 1]

\* A dialog is on screen: it covers the page below it.
ModalShown(v) == (v.showQuiz \/ v.showCheckpoint) /\ currentLesson(v)

\* Index renders CourseViewer for the selected course.
OpenViewer(course) ==
    /\ ~viewer.isOpen
    /\ viewer' = [NoViewer EXCEPT !.isOpen = TRUE, !.course = course]
    /\ UNCHANGED <<edgeVars, hookVars, extraction, mapped, quiz>>
    /\ UNCHANGED <<checkpoint, folderView, recommender, tutor>>

\* A lesson button of the navigation panel, or Start First Lesson.
handleLessonSelect(moduleIndex, lessonIndex) ==
    /\ viewer.isOpen /\ ~ModalShown(viewer)
    /\ moduleIndex < Len(viewer.course)
    /\ lessonIndex < viewer.course[moduleIndex + 1]
    /\ viewer' = [viewer EXCEPT !.currentModuleIndex = moduleIndex,
                                !.currentLessonIndex = lessonIndex]
    /\ UNCHANGED <<edgeVars, hookVars, extraction, mapped, quiz>>
    /\ UNCHANGED <<checkpoint, folderView, recommender, tutor>>

\* Mark as Complete.
handleMarkComplete ==
    /\ viewer.isOpen /\ ~ModalShown(viewer)
    /\ currentLesson(viewer)
    /\ viewer' = [viewer EXCEPT
            !.marked = @ \cup {<<viewer.currentModuleIndex, viewer.currentLessonIndex, "mark">>},
            !.currentLessonIndex = @ + 1]
    /\ UNCHANGED <<edgeVars, hookVars, extraction, mapped, quiz>>
    /\ UNCHANGED <<checkpoint, folderView, recommender, tutor>>

\* Take Quiz: QuizModal opens and resets.
TakeQuiz ==
    /\ viewer.isOpen /\ ~ModalShown(viewer)
    /\ currentLesson(viewer)
    /\ viewer' = [viewer EXCEPT !.showQuiz = TRUE, !.isQuizCompleted = FALSE,
                                !.save = "none"]
    /\ UNCHANGED <<edgeVars, hookVars, extraction, mapped, quiz>>
    /\ UNCHANGED <<checkpoint, folderView, recommender, tutor>>

\* Mutant: the modal reports completion whatever saveQuizScore returned.
quizCompleteIgnoresResult(v, success) ==
    [v EXCEPT
        !.saves = @ + 1,
        !.save = IF success THEN "saved" ELSE "failed",
        !.scored = IF success
                   THEN @ \cup {<<v.currentModuleIndex, v.currentLessonIndex>>} ELSE @,
        !.isQuizCompleted = TRUE,
        !.showQuiz = FALSE,
        !.completing = TRUE,
        !.marked = @ \cup {<<v.currentModuleIndex, v.currentLessonIndex, "quiz">>}]

\* QuizModal.handleQuizComplete once saveQuizScore has returned: on success
\* setIsQuizCompleted(true) and onQuizComplete, which is
\* CourseViewer.handleQuizComplete up to its await of onLessonComplete.
quizComplete(v, success) ==
    IF success
    THEN [v EXCEPT
            !.saves = @ + 1,
            !.save = "saved",
            !.scored = @ \cup {<<v.currentModuleIndex, v.currentLessonIndex>>},
            !.isQuizCompleted = TRUE,
            !.showQuiz = FALSE,
            !.completing = TRUE,
            !.marked = @ \cup {<<v.currentModuleIndex, v.currentLessonIndex, "quiz">>}]
    ELSE [v EXCEPT !.saves = @ + 1, !.save = "failed"]

\* The button of the results page of the quiz.
QuizModalHandleQuizComplete(success) ==
    /\ viewer.isOpen /\ viewer.showQuiz /\ currentLesson(viewer)
    /\ ~viewer.isQuizCompleted
    /\ viewer.saves < MaxSaves
    /\ viewer' = quizComplete(viewer, success)
    /\ UNCHANGED <<edgeVars, hookVars, extraction, mapped, quiz>>
    /\ UNCHANGED <<checkpoint, folderView, recommender, tutor>>

\* await onLessonComplete(...) returns in CourseViewer.handleQuizComplete.
handleQuizCompleteResumes ==
    /\ viewer.completing
    /\ viewer' = [viewer EXCEPT !.completing = FALSE, !.showCheckpoint = TRUE]
    /\ UNCHANGED <<edgeVars, hookVars, extraction, mapped, quiz>>
    /\ UNCHANGED <<checkpoint, folderView, recommender, tutor>>

\* onClose of the quiz modal.
CloseQuizModal ==
    /\ viewer.isOpen /\ viewer.showQuiz /\ currentLesson(viewer)
    /\ viewer' = [viewer EXCEPT !.showQuiz = FALSE]
    /\ UNCHANGED <<edgeVars, hookVars, extraction, mapped, quiz>>
    /\ UNCHANGED <<checkpoint, folderView, recommender, tutor>>

\* onClose of the module checkpoint.
handleCheckpointComplete ==
    /\ viewer.isOpen /\ viewer.showCheckpoint /\ currentLesson(viewer)
    /\ viewer' =
        IF viewer.currentLessonIndex < viewer.course[viewer.currentModuleIndex + 1] - 1
        THEN [viewer EXCEPT !.showCheckpoint = FALSE, !.currentLessonIndex = @ + 1]
        ELSE IF viewer.currentModuleIndex < Len(viewer.course) - 1
        THEN [viewer EXCEPT !.showCheckpoint = FALSE, !.currentModuleIndex = @ + 1,
                            !.currentLessonIndex = 0]
        ELSE [viewer EXCEPT !.showCheckpoint = FALSE]
    /\ UNCHANGED <<edgeVars, hookVars, extraction, mapped, quiz>>
    /\ UNCHANGED <<checkpoint, folderView, recommender, tutor>>

ViewerNext ==
    \/ \E course \in ViewerCourses : OpenViewer(course)
    \/ \E m \in 0..(MaxModules - 1) : \E l \in 0..(MaxLessons - 1) : handleLessonSelect(m, l)
    \/ handleMarkComplete
    \/ TakeQuiz
    \/ \E success \in BOOLEAN : QuizModalHandleQuizComplete(success)
    \/ handleQuizCompleteResumes
    \/ CloseQuizModal
    \/ handleCheckpointComplete

----------------------------------------------------------------------------
(* The module checkpoint and its rule-based feedback                       *)

MaxQuestions == 10

\* ModuleCheckpoint: Math.round((quizScore / totalQuestions) * 100)
scorePercentage(quizScore, totalQuestions) == MathRound(quizScore * 100, totalQuestions)

\* The catch (parseError) of generate-adaptive-feedback:
\* scorePercentage = Math.round((quiz_score / 10) * 100);
\* should_advance: scorePercentage >= 70 && confidence_level >= 6
adaptiveFeedbackShouldAdvance(quiz_score, confidence_level) ==
    MathRound(quiz_score * 100, 10) >= 70 /\ confidence_level >= 6

\* generateDetailedFeedback: scorePercentage = (quiz_score / 10) * 100 and
\* the chain of branches that sets shouldAdvance; x >= 80 is written
\* 10 * x >= 800 to stay in the integers.
generateDetailedFeedback(quiz_score, confidence_level) ==
    LET tenTimesPercentage == quiz_score * 100
    IN IF tenTimesPercentage >= 800 /\ confidence_level >= 8 THEN TRUE
       ELSE IF tenTimesPercentage >= 700 /\ confidence_level >= 6 THEN TRUE
       ELSE IF tenTimesPercentage >= 600 \/ confidence_level >= 5 THEN FALSE
       ELSE FALSE

NoCheckpoint ==
    [pc |-> "idle", quizScore |-> 0, totalQuestions |-> 0, confidence_level |-> 0,
     source |-> "none", should_advance |-> FALSE]

\* The checkpoint opens after a quiz of totalQuestions questions scored
\* quizScore, and the learner submits it with a confidence of 1 to 10.
handleSubmit(quizScore, totalQuestions, confidence_level) ==
    /\ checkpoint.pc = "idle"
    /\ quizScore <= totalQuestions
    /\ checkpoint' = [NoCheckpoint EXCEPT !.pc = "submitted", !.quizScore = quizScore,
                            !.totalQuestions = totalQuestions,
                            !.confidence_level = confidence_level]
    /\ UNCHANGED <<edgeVars, hookVars, extraction, mapped, quiz>>
    /\ UNCHANGED <<viewer, folderView, recommender, tutor>>

\* saveModuleProgress builds the feedback on the client.
saveModuleProgress ==
    /\ checkpoint.pc = "submitted"
    /\ checkpoint' = [checkpoint EXCEPT !.pc = "fed", !.source = "client",
            !.should_advance =
                generateDetailedFeedback(checkpoint.quizScore, checkpoint.confidence_level)]
    /\ UNCHANGED <<edgeVars, hookVars, extraction, mapped, quiz>>
    /\ UNCHANGED <<viewer, folderView, recommender, tutor>>

\* generate-adaptive-feedback is sent the same data and answers with its
\* fallback.
AdaptiveFeedbackFallback ==
    /\ checkpoint.pc = "submitted"
    /\ checkpoint' = [checkpoint EXCEPT !.pc = "fed", !.source = "edge",
            !.should_advance =
                adaptiveFeedbackShouldAdvance(checkpoint.quizScore, checkpoint.confidence_level)]
    /\ UNCHANGED <<edgeVars, hookVars, extraction, mapped, quiz>>
    /\ UNCHANGED <<viewer, folderView, recommender, tutor>>

\* onClose
CheckpointCloses ==
    /\ checkpoint.pc = "fed"
    /\ checkpoint' = NoCheckpoint
    /\ UNCHANGED <<edgeVars, hookVars, extraction, mapped, quiz>>
    /\ UNCHANGED <<viewer, folderView, recommender, tutor>>

CheckpointNext ==
    \/ \E totalQuestions \in 1..MaxQuestions : \E quizScore \in 0..MaxQuestions :
        \E confidence_level \in 1..10 :
            handleSubmit(quizScore, totalQuestions, confidence_level)
    \/ saveModuleProgress
    \/ AdaptiveFeedbackFallback
    \/ CheckpointCloses

----------------------------------------------------------------------------
(* useFolders, moveCourseToFolder and the FolderManager listing            *)

FolderIds == {"f1", "f2", "f3"}

FolderCourses == {"c1", "c2"}

\* The folders and courses tables (courses.folder_id REFERENCES folders(id)
\* ON DELETE SET NULL), the folders of useFolders and the folder_id of each
\* course held by useCourses; created remembers the ids already given out.
NoFolderView ==
    [db |-> [folders |-> {}, folder_id |-> [c \in FolderCourses |-> Null]],
     folders |-> {}, courses |-> [c \in {} |-> Null], created |-> {}]

\* folder_id: course.folder_id || undefined, folderId || undefined
folderIdOrUndefined(folder_id) == IF folder_id = Null THEN Undefined ELSE folder_id

\* courses.filter(course => course.folder_id === folderId)
getCoursesInFolder(folderId) ==
    {c \in DOMAIN folderView.courses : folderView.courses[c] = folderId}

\* The headings a course is rendered under: one card per folder of
\* useFolders, and the Unorganized section for getCoursesInFolder(null).
ListedUnder(c) ==
    {f \in folderView.folders : c \in getCoursesInFolder(Str(f))}
        \cup (IF c \in getCoursesInFolder(Null) THEN {"Unorganized"} ELSE {})

\* fetchCourses, as far as folder_id goes
FolderFetchCourses ==
    /\ folderView' = [folderView EXCEPT !.courses =
            [c \in FolderCourses |-> folderIdOrUndefined(folderView.db.folder_id[c])]]
    /\ UNCHANGED <<edgeVars, hookVars, extraction, mapped, quiz>>
    /\ UNCHANGED <<viewer, checkpoint, recommender, tutor>>

createFolder(f, ok) ==
    /\ f \notin folderView.created
    /\ folderView' =
        IF ok THEN [folderView EXCEPT !.db.folders = @ \cup {f}, !.folders = @ \cup {f},
                                      !.created = @ \cup {f}]
        ELSE folderView
    /\ UNCHANGED <<edgeVars, hookVars, extraction, mapped, quiz>>
    /\ UNCHANGED <<viewer, checkpoint, recommender, tutor>>

\* The update, then setCourses with folderId || undefined. A course is
\* moved into a folder on display, or out of the folder it is listed in.
moveCourseToFolder(c, folderId, ok) ==
    /\ c \in DOMAIN folderView.courses
    /\ \/ \E f \in folderView.folders : folderId = Str(f)
       \/ folderId = Null /\ ListedUnder(c) \cap FolderIds # {}
    /\ folderView' =
        IF ok THEN [folderView EXCEPT !.db.folder_id[c] = folderId,
                                      !.courses[c] = folderIdOrUndefined(folderId)]
        ELSE folderView
    /\ UNCHANGED <<edgeVars, hookVars, extraction, mapped, quiz>>
    /\ UNCHANGED <<viewer, checkpoint, recommender, tutor>>

\* The delete of the folders row, which sets the folder_id of its courses
\* to NULL in the table, then setFolders without the folder.
deleteFolder(f, ok) ==
    /\ f \in folderView.folders
    /\ folderView' =
        IF ok THEN [folderView EXCEPT
                        !.db.folders = @ \ {f},
                        !.db.folder_id = [c \in FolderCourses |->
                                            IF @[c] = Str(f) THEN Null ELSE @[c]],
                        !.folders = @ \ {f}]
        ELSE folderView
    /\ UNCHANGED <<edgeVars, hookVars, extraction, mapped, quiz>>
    /\ UNCHANGED <<viewer, checkpoint, recommender, tutor>>

FolderNext ==
    \/ FolderFetchCourses
    \/ \E f \in FolderIds : \E ok \in BOOLEAN : createFolder(f, ok)
    \/ \E c \in FolderCourses : \E f \in FolderIds : \E ok \in BOOLEAN :
        \/ moveCourseToFolder(c, Str(f), ok)
        \/ moveCourseToFolder(c, Null, ok)
    \/ \E f \in FolderIds : \E ok \in BOOLEAN : deleteFolder(f, ok)

----------------------------------------------------------------------------
(* useRecommendedLessons                                                   *)
(*                                                                         *)
(* A lesson is represented by its source; the order among lessons of one   *)
(* source, which is all the sort by relevance changes, is not kept.        *)

MaxResponse == 8

MaxCalls == 2

NoRecommender ==
    [recommendedLessons |-> <<>>, isLoading |-> FALSE, generating |-> 0, adding |-> 0,
     received |-> 0]

Take(s, n) == SubSeq(s, 1, IF Len(s) <= n THEN Len(s) ELSE n)

\* data.recommendations of n elements
AiLessons(n) == [i \in 1..n |-> "ai-generated"]

\* generateFallbackLessons: templates.slice(0, 6).map(...), three templates
\* per category
generateFallbackLessons == [i \in 1..3 |-> "curated"]

\* generateSimilarLessons: templates.slice(0, 2).map(...)
generateSimilarLessons == [i \in 1..2 |-> "curated"]

\* The updater of addSimilarLessons without its slice(0, 6).
addSimilarUnbounded(prev, lessons) == Take(lessons, 2) \o prev

\* const updated = [...aiLessons.slice(0, 2), ...prev];
\* return updated.slice(0, 6);
addSimilar(prev, lessons) == Take(Take(lessons, 2) \o prev, 6)

\* generateRecommendedLessons up to its await: skipped without a course or
\* within two seconds of the last request, else isLoading is set.
GenerateBegins(hasCourse, cooledDown) ==
    /\ recommender.generating < MaxCalls
    /\ recommender' =
        IF hasCourse /\ cooledDown
        THEN [recommender EXCEPT !.isLoading = TRUE, !.generating = @ + 1]
        ELSE recommender
    /\ UNCHANGED <<edgeVars, hookVars, extraction, mapped, quiz>>
    /\ UNCHANGED <<viewer, checkpoint, folderView, tutor>>

\* The race settles: a non-empty array is sorted and cut to six; an error,
\* an invalid or empty answer or the timeout gives the fallback lessons;
\* finally isLoading is cleared.
GenerateSettles(outcome, n) ==
    /\ recommender.generating > 0
    /\ recommender' =
        [recommender EXCEPT
            !.recommendedLessons =
                IF outcome = "data" /\ n > 0 THEN Take(AiLessons(n), 6)
                ELSE Take(generateFallbackLessons, 6),
            !.isLoading = FALSE,
            !.generating = @ - 1,
            !.received = IF outcome = "data" THEN n ELSE 0]
    /\ UNCHANGED <<edgeVars, hookVars, extraction, mapped, quiz>>
    /\ UNCHANGED <<viewer, checkpoint, folderView, tutor>>

\* addSimilarLessons up to its await
AddSimilarBegins ==
    /\ recommender.adding < MaxCalls
    /\ recommender' = [recommender EXCEPT !.adding = @ + 1]
    /\ UNCHANGED <<edgeVars, hookVars, extraction, mapped, quiz>>
    /\ UNCHANGED <<viewer, checkpoint, folderView, tutor>>

AddSimilarSettles(outcome, n) ==
    /\ recommender.adding > 0
    /\ recommender' =
        [recommender EXCEPT
            !.recommendedLessons =
                IF outcome = "data" THEN addSimilar(@, AiLessons(n))
                ELSE addSimilar(@, generateSimilarLessons),
            !.adding = @ - 1,
            !.received = IF outcome = "data" THEN n ELSE 0]
    /\ UNCHANGED <<edgeVars, hookVars, extraction, mapped, quiz>>
    /\ UNCHANGED <<viewer, checkpoint, folderView, tutor>>

RecommenderNext ==
    \/ \E hasCourse, cooledDown \in BOOLEAN : GenerateBegins(hasCourse, cooledDown)
    \/ \E outcome \in {"data", "error", "timeout"} : \E n \in 0..MaxResponse :
        GenerateSettles(outcome, n)
    \/ AddSimilarBegins
    \/ \E outcome \in {"data", "error"} : \E n \in 0..MaxResponse :
        AddSimilarSettles(outcome, n)

----------------------------------------------------------------------------
(* AITutor.sendMessage                                                     *)

MaxHistory == 2

TutorMessages == {<<>>, <<" ">>, <<"h", "i">>, <<"y", "o">>}

\* What functions.invoke resolves to: error, or data that is null or an
\* object whose response is missing, empty or a text.
TutorResults ==
    {[error |-> TRUE, data |-> "null", response |-> Undefined],
     [error |-> FALSE, data |-> "null", response |-> Undefined],
     [error |-> FALSE, data |-> "object", response |-> Undefined],
     [error |-> FALSE, data |-> "object", response |-> Str("")],
     [error |-> FALSE, data |-> "object", response |-> Str("answer")]}

NoTutor ==
    [pc |-> "idle", currentMessage |-> <<>>, messageToSend |-> <<>>,
     result |-> [error |-> FALSE, data |-> "null", response |-> Undefined],
     chatHistory |-> <<>>, isChatLoading |-> FALSE, tutor_chats |-> 0]

\* if (response.error) throw, without the test of response.data.response.
invalidResponseAcceptsEmpty(result) == result.error

\* if (response.error) throw ...;
\* if (!response.data || !response.data.response) throw ...
invalidResponse(result) ==
    \/ result.error
    \/ result.data = "null"
    \/ result.response.t # "string"
    \/ result.response.s = ""

\* onChange of the input, which is disabled while isChatLoading
TutorType(text) ==
    /\ ~tutor.isChatLoading
    /\ tutor' = [tutor EXCEPT !.currentMessage = text]
    /\ UNCHANGED <<edgeVars, hookVars, extraction, mapped, quiz>>
    /\ UNCHANGED <<viewer, checkpoint, folderView, recommender>>

\* sendMessage up to the await of functions.invoke
TutorSendMessage(signedIn) ==
    /\ tutor.pc = "idle"
    /\ Len(tutor.chatHistory) < MaxHistory
    /\ tutor' =
        IF trim(tutor.currentMessage) = <<>> \/ ~signedIn THEN tutor
        ELSE [tutor EXCEPT !.pc = "invoking", !.isChatLoading = TRUE,
                           !.messageToSend = tutor.currentMessage,
                           !.currentMessage = <<>>]
    /\ UNCHANGED <<edgeVars, hookVars, extraction, mapped, quiz>>
    /\ UNCHANGED <<viewer, checkpoint, folderView, recommender>>

\* The invocation resolves: the two throws lead to the catch and the
\* finally; otherwise the insert into tutor_chats is issued.
TutorInvokeSettles(result) ==
    /\ tutor.pc = "invoking"
    /\ tutor' =
        IF invalidResponse(result)
        THEN [tutor EXCEPT !.pc = "idle", !.result = result,
                           !.currentMessage = tutor.messageToSend,
                           !.isChatLoading = FALSE]
        ELSE [tutor EXCEPT !.pc = "inserting", !.result = result]
    /\ UNCHANGED <<edgeVars, hookVars, extraction, mapped, quiz>>
    /\ UNCHANGED <<viewer, checkpoint, folderView, recommender>>

\* The insert settles; chatError is only logged and the chat is appended
\* either way.
TutorInsertSettles(ok) ==
    /\ tutor.pc = "inserting"
    /\ tutor' = [tutor EXCEPT
                    !.pc = "idle",
                    !.tutor_chats = IF ok THEN @ + 1 ELSE @,
                    !.chatHistory = Append(@, [message |-> tutor.messageToSend,
                                               response |-> tutor.result.response]),
                    !.isChatLoading = FALSE]
    /\ UNCHANGED <<edgeVars, hookVars, extraction, mapped, quiz>>
    /\ UNCHANGED <<viewer, checkpoint, folderView, recommender>>

TutorNext ==
    \/ \E text \in TutorMessages : TutorType(text)
    \/ \E signedIn \in BOOLEAN : TutorSendMessage(signedIn)
    \/ \E result \in TutorResults : TutorInvokeSettles(result)
    \/ \E ok \in BOOLEAN : TutorInsertSettles(ok)

Init ==
    /\ EdgeInit
    /\ HookInit
    /\ extraction = NoExtraction
    /\ mapped = NoRecommendations
    /\ quiz = NoQuiz
    /\ viewer = NoViewer
    /\ checkpoint = NoCheckpoint
    /\ folderView = NoFolderView
    /\ recommender = NoRecommender
    /\ tutor = NoTutor

NextEdge == EdgeNext

SpecEdge == Init /\ [][NextEdge]_vars

NextCourses == HookNext

SpecCourses == Init /\ [][NextCourses]_vars

NextExtract == ExtractNext

SpecExtract == Init /\ [][NextExtract]_vars

NextRecommend == RecommendNext

SpecRecommend == Init /\ [][NextRecommend]_vars

NextQuiz == QuizNext

SpecQuiz == Init /\ [][NextQuiz]_vars

NextViewer == ViewerNext

SpecViewer == Init /\ [][NextViewer]_vars

NextCheckpoint == CheckpointNext

SpecCheckpoint == Init /\ [][NextCheckpoint]_vars

NextFolders == FolderNext

SpecFolders == Init /\ [][NextFolders]_vars

NextRecommender == RecommenderNext

SpecRecommender == Init /\ [][NextRecommender]_vars

NextTutor == TutorNext

SpecTutor == Init /\ [][NextTutor]_vars

----------------------------------------------------------------------------
(* Properties of the edge functions, checked under SpecEdge                *)

\* The request has been read as JSON by a handler that went past OPTIONS.
Posted == edgePc # "idle" /\ request.method = "POST"

\* The outbound call resolved with a non-success status.
HardStatus == edgePc = "done" /\ reply.net = "ok" /\ ~Ok(reply)

\* The handlers that parse the model text as JSON.
ParsingHandlers ==
    {GenerateCourse, LessonRecommendations, AdaptiveFeedback, RoadmapContent}

\* JSON.parse throws on the text, or the handler's structure check rejects
\* the parsed value (generate-roadmap-content has no structure check).
Uncoercible(h, text) ==
    \/ text.parse = "throw"
    \/ h = GenerateCourse /\ ~courseStructureOK(text)
    \/ h = LessonRecommendations /\ ~recommendationsStructureOK(text)
    \/ h = AdaptiveFeedback /\ ~feedbackStructureOK(text)

SoftFailure ==
    /\ edgePc = "done"
    /\ handler \in ParsingHandlers
    /\ reply.net = "ok" /\ Ok(reply) /\ reply.shape = "text"
    /\ Uncoercible(handler, reply.text)

\* C1: in the four handlers that parse model JSON, a success status whose
\* text cannot be parsed or fails the structure check is answered with
\* HTTP 200 carrying the fallback value, never with an error body.
C1_SoftFailureFallback ==
    SoftFailure =>
        /\ response.status = 200
        /\ response.content = "fallback"
        /\ response.keys \cap {"error", "details"} = {}

C1_Witness ==
    /\ SoftFailure
    /\ handler = AdaptiveFeedback
    /\ reply.text.parse = "object"
    /\ response.content = "fallback"

\* C2 as stated: in every handler a non-success status of the inference call
\* is answered with HTTP 500 {error, details} and never with fallback
\* content under HTTP 200.
C2_Original ==
    HardStatus =>
        /\ response.status = 500
        /\ response.keys = {"error", "details"}
        /\ response.content # "fallback"

\* C2 amended: a non-success status of the inference call is answered with
\* HTTP 500 {error, details} by every handler except
\* generate-lesson-recommendations, which answers HTTP 200 with the static
\* fallback recommendations.
C2_HardStatusSurfaced ==
    HardStatus =>
        IF handler = LessonRecommendations
        THEN response = Success({"recommendations"}, "fallback")
        ELSE /\ response.status = 500
             /\ response.keys = {"error", "details"}
             /\ response.content = "error"

C2_Witness ==
    /\ HardStatus
    /\ handler = GenerateCourse
    /\ reply.status = 500
    /\ response.status = 500

\* The input fields the interface table lists as required.
RequiredFields(h) ==
    CASE h = GenerateCourse -> {"title", "audience_level", "duration"}
      [] h = LessonRecommendations -> {"courseTitle"}
      [] h = ValidateQuizAnswer -> {"userAnswer", "question", "correctAnswer"}
      [] h = AdaptiveFeedback ->
            {"quiz_score", "confidence_level", "struggle_topics", "understanding_topics"}
      [] h = RoadmapContent -> {"courseTitle", "category", "contentType"}
      [] OTHER -> {"message", "courseId", "userId", "context"}

\* C3: in every handler a request lacking a required input field is
\* answered with HTTP 500 and no call to the inference endpoint is made.
C3_MissingFieldRejected ==
    (Posted /\ request.json /\ ~(RequiredFields(handler) \subseteq request.fields)) =>
        /\ calls = 0
        /\ edgePc = "done" => response.status = 500

\* C4 as stated: in every handler a request served without GROQ_API_KEY is
\* answered with HTTP 500 and no outbound call is made.
C4_Original ==
    (Posted /\ ~credential) =>
        /\ calls = 0
        /\ edgePc = "done" => response.status = 500

\* C4 amended: without GROQ_API_KEY no handler makes an outbound call; every
\* handler answers HTTP 500, except generate-lesson-recommendations, which
\* answers a request carrying courseTitle with HTTP 200 and the static
\* fallback recommendations.
C4_NoCredentialNoCall ==
    (Posted /\ ~credential) =>
        /\ calls = 0
        /\ edgePc = "done" =>
            IF handler = LessonRecommendations /\ "courseTitle" \in request.fields
            THEN response = Success({"recommendations"}, "fallback")
            ELSE response.status = 500

C4_Witness ==
    /\ Posted /\ ~credential
    /\ edgePc = "done"
    /\ handler = TutorChat
    /\ request.fields = InputFields(TutorChat)
    /\ response.status = 500

\* C5: a request triggers at most one outbound call to the inference
\* endpoint, whatever the call settles with (429 included).
C5_AtMostOneCall == calls <= 1

C5_Witness ==
    /\ edgePc = "done"
    /\ handler = LessonRecommendations
    /\ reply.status = 429
    /\ calls = 1

\* C6: a lesson-recommendations request that carries courseTitle is answered
\* with HTTP 200 and a recommendations array, taken from the model exactly
\* when one call was made, it returned a success status and its text parsed
\* and passed the structure handling, and from the static templates
\* otherwise (credential missing, non-success status, parse failure).
C6_RecommendationsAlways200 ==
    (/\ edgePc = "done"
     /\ handler = LessonRecommendations
     /\ request.method = "POST"
     /\ "courseTitle" \in request.fields) =>
        /\ response.status = 200
        /\ "recommendations" \in response.keys
        /\ response.content \in {"model", "fallback"}
        /\ response.content = "model" <=>
            /\ calls = 1
            /\ reply.net = "ok" /\ Ok(reply) /\ reply.shape = "text"
            /\ recommendationsStructureOK(reply.text)

C6_Witness ==
    /\ edgePc = "done"
    /\ handler = LessonRecommendations
    /\ "courseTitle" \in request.fields
    /\ reply.status = 429
    /\ response = Success({"recommendations"}, "fallback")

----------------------------------------------------------------------------
(* Properties of useCourses, checked under SpecCourses                     *)

LastIssued == issued[Len(issued)]

\* The row a logged insert wrote is in its table.
Stored(r) ==
    IF r.table = "courses"
    THEN \E x \in db.courses : <<x.id>> = r.id
    ELSE \E x \in db[r.table] : x.id = r.id

\* createCourse has just had a module or lesson insert fail.
FailedInsert ==
    /\ last.op = "createCourse"
    /\ Len(issued) > 0
    /\ LastIssued.verb = "insert"
    /\ LastIssued.table \in {"modules", "lessons"}
    /\ LastIssued.result # "ok"

\* C7: when a module or lesson insert of createCourse fails, the error is
\* rethrown to the caller, the course row and every row inserted before the
\* failure are still in the database, and createCourse has issued nothing
\* but inserts (no compensating delete).
C7_NoRollback ==
    FailedInsert =>
        /\ last.result = "threw"
        /\ hook.op = "none"
        /\ \E x \in db.courses : x.id = last.course
        /\ \A i \in 1..Len(issued) :
            /\ issued[i].verb = "insert"
            /\ issued[i].result = "ok" => Stored(issued[i])
        /\ issued[1].table = "courses" /\ issued[1].result = "ok"

\* A lesson insert fails after the course, a module, an earlier lesson and
\* one of its quiz questions have been written.
C7_Witness ==
    /\ FailedInsert
    /\ LastIssued.table = "lessons"
    /\ \E i, j \in 1..Len(issued) :
        /\ issued[i].table = "lessons" /\ issued[i].result = "ok"
        /\ issued[j].table = "quiz_questions" /\ issued[j].result = "ok"

\* The rows of any table that reference course c.
References(c) ==
    {m \in db.modules : m.course_id = c}
    \cup {l \in db.lessons : l.id[1] = c}
    \cup {q \in db.quiz_questions : q.id[1] = c}
    \cup {r \in db.resources : r.id[1] = c}
    \cup {s \in db.quiz_scores : s.course_id = c}
    \cup {t \in db.tutor_chats : t.course_id = c}

\* deleteCourse has run to its end and every request it issued reached the
\* database.
DeleteCourseRan ==
    /\ last.op = "deleteCourse"
    /\ last.result \in {"deleted", "failed"}
    /\ \A i \in 1..Len(issued) : issued[i].result # "unavailable"

\* C8: once deleteCourse has run for a course, whatever rows depended on it,
\* the course row is gone and no row of any table references the course.
C8_DeleteRemovesCourseAndDependents ==
    DeleteCourseRan =>
        /\ ~ \E x \in db.courses : x.id = last.course
        /\ References(last.course) = {}

\* The step is an awaited delete of deleteCourse settling.
DeleteSettles == last'.op = "deleteCourse" /\ issued' # issued

\* C9: deleteCourse issues the quiz_scores delete first; the course delete
\* is issued only after the quiz_scores delete reported no error; and a
\* delete that reports an error leaves the local course list as it was.
C9_ScoresThenCourse ==
    [][DeleteSettles =>
        /\ issued'[1].table = "quiz_scores"
        /\ \A i \in 1..Len(issued') :
            issued'[i].table = "courses" =>
                /\ i = 2
                /\ issued'[1].result = "ok"
        /\ issued'[Len(issued')].result # "ok" =>
            /\ courses' = courses
            /\ last'.result = "failed"
            /\ hook'.op = "none"]_vars

\* The course delete was issued after the quiz_scores delete and reported
\* an error; the course is still listed.
C9_Witness ==
    /\ last.op = "deleteCourse"
    /\ last.result = "failed"
    /\ Len(issued) = 2
    /\ issued[2].table = "courses" /\ issued[2].result # "ok"
    /\ last.course \in LocalIds

\* p is x = num / den rounded to the nearest integer, halves upwards.
Nearest(p, num, den) == 2 * p * den <= 2 * num + den /\ 2 * num + den < 2 * (p + 1) * den

LocalLessons(course) ==
    Flatten([m \in 1..Len(course.modules) |-> course.modules[m].lessons])

----------------------------------------------------------------------------
(* Properties of the generate-course fallback, checked under SpecEdge      *)

\* The courseContent a generate-course response carries when it is the
\* fallback.
FallbackCourseContent ==
    IF handler = GenerateCourse /\ response.content = "fallback"
    THEN courseFallback
    ELSE [modules |-> <<>>]

\* At least one module, every module at least one lesson, every lesson with
\* objectives, content, two quiz questions and two resources.
SchemaConformant(c) ==
    /\ Len(c.modules) >= 1
    /\ \A m \in 1..Len(c.modules) :
        /\ Len(c.modules[m].lessons) >= 1
        /\ \A l \in 1..Len(c.modules[m].lessons) :
            LET lesson == c.modules[m].lessons[l] IN
            /\ lesson.objectives >= 1
            /\ lesson.content
            /\ Len(lesson.quiz) = 2
            /\ \A q \in 1..2 : lesson.quiz[q].answer \in 1..lesson.quiz[q].options
            /\ Len(lesson.free_resources) = 2
            /\ \A r \in 1..2 : lesson.free_resources[r].title /\ lesson.free_resources[r].url

\* C11: when the text of a successful generate-course inference call does
\* not parse or lacks the modules array, the handler answers HTTP 200 with
\* its fallback course, and that course has at least one module, each
\* module at least one lesson, each lesson objectives, content, two quiz
\* questions and two resources.
C11_CourseFallbackConformant ==
    (SoftFailure /\ handler = GenerateCourse) =>
        /\ response = Success({"success", "courseContent"}, "fallback")
        /\ SchemaConformant(FallbackCourseContent)

\* The text parsed to an object without a modules array.
C11_Witness ==
    /\ SoftFailure
    /\ handler = GenerateCourse
    /\ reply.text.parse = "object"
    /\ reply.text.key # "modules"
    /\ response.content = "fallback"

----------------------------------------------------------------------------
(* Properties of the extraction, checked under SpecExtract                 *)

\* What JSON.parse receives and returns when handler h is given text t.
Extracted(h, t) ==
    LET bounded == jsonBoundaries(removeCodeBlocks(trim(t)))
        cleaned == cleanCharacters(h, bounded)
    IN JSONparse(IF h = GenerateCourse THEN fixCommonIssues(cleaned) ELSE cleaned)

Extraction(h) == extraction.pc = "done" /\ extraction.handler = h

\* C12: for a model text that is a valid JSON object and nothing else, the
\* value the pipeline of generate-course or generate-roadmap-content parses
\* is exactly JSON.parse of the text.
C12_ValidJsonUnchanged ==
    \A h \in {GenerateCourse, RoadmapContent} :
        (Extraction(h) /\ extraction.content \in Objects) =>
            extraction.parsed = JSONparse(extraction.content)

\* {"k": "LDQUO hi RDQUO"}, {"k": "\"hi\""}, {"k": "a NDASH b"}, {"k": "a-b"}
SmartQuoted(k) == Object(k, Quoted(<<"LDQUO", "h", "i", "RDQUO">>))

StraightQuoted(k) == Object(k, Quoted(<<"\\", "\"", "h", "i", "\\", "\"">>))

SmartDashed(k) == Object(k, Quoted(<<"a", "NDASH", "b">>))

StraightDashed(k) == Object(k, Quoted(<<"a", "-", "b">>))

\* C13: an object whose string value holds typographic double quotes or
\* dashes parses, and the value holds straight quotes or a hyphen in their
\* place.
C13_SmartCharactersRecovered ==
    \A h \in {GenerateCourse, RoadmapContent} :
        \A k \in {<<"a">>, <<"m", "o", "d", "u", "l", "e", "s">>} :
            /\ (Extraction(h) /\ extraction.content = SmartQuoted(k)) =>
                    extraction.parsed = JSONparse(StraightQuoted(k))
            /\ (Extraction(h) /\ extraction.content = SmartDashed(k)) =>
                    extraction.parsed = JSONparse(StraightDashed(k))

\* Sure! (fence)json LF {"a":1,} LF (fence)
SureFencedTrailingComma ==
    <<"S", "u", "r", "e", "!", " ", "BT", "BT", "BT", "j", "s", "o", "n", "LF">>
    \o <<"{", "\"", "a", "\"", ":", "1", ",", "}">> \o <<"LF", "BT", "BT", "BT">>

\* C14: in generate-course a text with a trailing comma before a closing
\* brace or bracket parses to what the same text without that comma parses
\* to, and parses whenever that text does; the text
\* Sure! (fence)json LF {"a":1,} LF (fence) is recovered as {"a":1}.
C14_TrailingCommaRepaired ==
    Extraction(GenerateCourse) =>
        /\ \A w \in Fences \cup Proses : \A o \in Objects :
            (\E t \in TrailingCommas(o) : extraction.content = w[1] \o t \o w[2]) =>
                extraction.parsed = Extracted(GenerateCourse, w[1] \o o \o w[2])
        /\ extraction.content = SureFencedTrailingComma =>
                /\ extraction.parsed.ok
                /\ extraction.parsed = JSONparse(Object(<<"a">>, <<"1">>))

C14_Witness ==
    /\ Extraction(GenerateCourse)
    /\ extraction.content = SureFencedTrailingComma
    /\ extraction.parsed.ok

\* C15: in each of the four handlers that parse model JSON, a valid JSON
\* object inside a fenced code block (json tag, no tag, another tag) is
\* parsed to what the handler parses the bare object to.
C15_FenceTransparent ==
    \A h \in {GenerateCourse, LessonRecommendations, AdaptiveFeedback, RoadmapContent} :
        \A f \in Fences : \A o \in Objects :
            (Extraction(h) /\ extraction.content = f[1] \o o \o f[2]) =>
                extraction.parsed = Extracted(h, o)

\* A fenced block with a tag other than json around an object that parses.
C15_Witness ==
    /\ Extraction(AdaptiveFeedback)
    /\ extraction.content =
        <<"BT", "BT", "BT", "j", "s", "LF">> \o Object(<<"a">>, <<"1">>)
        \o <<"LF", "BT", "BT", "BT">>
    /\ extraction.parsed.ok

\* C16: prose without braces before the first and after the last brace of
\* a valid JSON object does not change what the handler parses.
C16_ProseTransparent ==
    \A h \in {GenerateCourse, LessonRecommendations, AdaptiveFeedback, RoadmapContent} :
        \A p \in Proses : \A o \in Objects :
            (Extraction(h) /\ extraction.content = p[1] \o o \o p[2]) =>
                extraction.parsed = Extracted(h, o)

\* Prose on both sides of an object that parses.
C16_Witness ==
    /\ Extraction(RoadmapContent)
    /\ extraction.content =
        <<"S", "u", "r", "e", "!", " ">> \o Object(<<"a">>, <<"[", "1", ",", "2", "]">>)
        \o <<" ", "o", "k", ".">>
    /\ extraction.parsed.ok

\* C17: a model text without any brace character makes the handler answer
\* with its hard-coded fallback: nothing parsed from the text is used.
C17_BraceFreeFallsBack ==
    (extraction.pc = "done" /\ extraction.content \in BraceFree) =>
        extraction.outcome = "fallback"

----------------------------------------------------------------------------
(* Properties of the recommendation defaults, checked under SpecRecommend  *)

Returned == mapped.pc = "done" /\ mapped.outcome = "model"

\* C18: every element of the returned array has a difficulty, "Intermediate"
\* when the model gave none, and a relevanceScore that is a number between
\* 0.7 and 1.0, whatever the model supplied.
C18_ElementsDefaulted ==
    Returned =>
        \A i \in 1..Len(mapped.out) :
            /\ mapped.recs[i].difficulty.t = "undefined" =>
                    mapped.out[i].difficulty = Str("Intermediate")
            /\ mapped.out[i].relevanceScore.t = "number"
            /\ mapped.out[i].relevanceScore.n >= 70
            /\ mapped.out[i].relevanceScore.n <= 100

----------------------------------------------------------------------------
(* Properties of the quiz modal, checked under SpecQuiz                    *)

FellBack == quiz.validated.via \in {"error", "throw"}

\* C19 as stated: when the validation call returns an error or throws, the
\* answer is judged correct exactly when the user's answer string equals the
\* correct-answer string.
C19_Original ==
    FellBack =>
        (quiz.validated.isCorrect <=>
            quiz.validated.userAnswer = quiz.validated.correctAnswer)

\* C19: when the validation call returns an error or throws, the answer is
\* judged correct exactly when the user's answer and the correct answer are
\* equal after trimming surrounding whitespace and lower-casing both.
C19_FallbackComparesNormalised ==
    FellBack =>
        (quiz.validated.isCorrect <=>
            toLowerCase(trim(quiz.validated.userAnswer))
                = toLowerCase(trim(quiz.validated.correctAnswer)))

\* The call failed for the answer "A " to a question whose answer is "a",
\* and the feedback shown says correct.
C19_Witness ==
    /\ FellBack
    /\ quiz.validated.userAnswer = <<"A", " ">>
    /\ quiz.validated.correctAnswer = <<"a">>
    /\ quiz.validated.isCorrect
    /\ quiz.showAnswerFeedback
    /\ quiz.currentAnswerCorrect = "true"

\* C20: when the results of a quiz are shown in which every question was
\* answered once, and every question has a text and a correct answer, the
\* number of validation requests made equals the number of questions.
C20_OneRequestPerAnswer ==
    (/\ quiz.showResults
     /\ \A i \in 1..Len(quiz.questions) :
            /\ quiz.selected[i] = 1
            /\ quiz.questions[i].question # <<>>
            /\ getCorrectAnswer(quiz.questions[i]) # <<>>)
        => quiz.requests = Len(quiz.questions)

----------------------------------------------------------------------------
(* Properties of the preflight, checked under SpecEdge                     *)

\* C21: every handler answers an OPTIONS request with a Response carrying
\* the cors headers, whether or not the body can be read and whether or not
\* the credential is configured, and makes no outbound call for it.
C21_PreflightAnswered ==
    (edgePc # "idle" /\ request.method = "OPTIONS") =>
        /\ edgePc = "done"
        /\ response.cors
        /\ response.status = 200
        /\ response.content = "ok"
        /\ calls = 0

\* A preflight to a handler whose credential is not configured.
C21_Witness ==
    /\ edgePc = "done"
    /\ request.method = "OPTIONS"
    /\ ~request.json
    /\ ~credential
    /\ handler = ValidateQuizAnswer
    /\ response.cors

----------------------------------------------------------------------------
(* Properties of createCourse's result, checked under SpecCourses          *)

\* C22: when createCourse has returned the course, every module, lesson,
\* quiz question and resource it sent an insert for has its row in the
\* database, with the order column equal to its position.
C22_ReturnedMeansComplete ==
    (last.op = "createCourse" /\ last.result = "returned") =>
        \A i \in 1..Len(issued) :
            issued[i].verb = "insert" => Stored(issued[i])

----------------------------------------------------------------------------
(* Properties of the course viewer, checked under SpecViewer               *)

\* C24: a step in which saveQuizScore reports failure leaves the quiz not
\* flagged completed, hands no lesson to onLessonComplete and shows no
\* checkpoint; every lesson completed on the quiz path has a stored score,
\* and a checkpoint is shown or about to be shown only after a stored score.
C24_CompletionAfterScore ==
    /\ [](/\ \A x \in viewer.marked : x[3] = "quiz" => <<x[1], x[2]>> \in viewer.scored
          /\ (viewer.showCheckpoint \/ viewer.completing) => viewer.scored # {}
          /\ viewer.save = "failed" => ~viewer.isQuizCompleted)
    /\ [][(viewer'.saves # viewer.saves /\ viewer'.save = "failed") =>
            /\ viewer'.isQuizCompleted = viewer.isQuizCompleted
            /\ ~viewer'.isQuizCompleted
            /\ viewer'.marked = viewer.marked
            /\ viewer'.completing = viewer.completing
            /\ viewer'.showCheckpoint = viewer.showCheckpoint
            /\ viewer'.showQuiz]_vars

\* saveQuizScore has failed for a lesson never completed before: the quiz
\* is still open and nothing else has changed.
C24_Witness ==
    /\ viewer.save = "failed"
    /\ viewer.showQuiz
    /\ ~viewer.isQuizCompleted
    /\ viewer.marked = {}
    /\ ~viewer.showCheckpoint

\* C27: in every state of the viewer, for a course whose modules each have
\* a lesson, the two indices designate an existing lesson.
C27_IndicesDesignateLesson ==
    (viewer.isOpen /\ \A m \in 1..Len(viewer.course) : viewer.course[m] >= 1) =>
        currentLesson(viewer)

----------------------------------------------------------------------------
(* Properties of the quiz feedback, checked under SpecQuiz                 *)

\* C23: whenever the question page shows answer feedback, the feedback was
\* set for the question on display and for the answer selected on it.
C23_FeedbackIsCurrent ==
    (quiz.isOpen /\ ~quiz.showResults /\ quiz.showAnswerFeedback) =>
        /\ quiz.feedbackFor.index = quiz.currentQuestionIndex
        /\ quiz.feedbackFor.userAnswer = quiz.userAnswers[quiz.currentQuestionIndex + 1]

----------------------------------------------------------------------------
(* Properties of the checkpoint feedback, checked under SpecCheckpoint     *)

\* C25: rule-based feedback has should_advance true exactly when the score
\* is at least 70% of the quiz's questions (the percentage the checkpoint
\* displays) and the confidence level is at least 6.
C25_AdvanceAtSeventyPercent ==
    checkpoint.pc = "fed" =>
        (checkpoint.should_advance <=>
            /\ scorePercentage(checkpoint.quizScore, checkpoint.totalQuestions) >= 70
            /\ checkpoint.confidence_level >= 6)

----------------------------------------------------------------------------
(* Properties of the folder listing, checked under SpecFolders             *)

\* C26: every course is listed under exactly one existing folder or under
\* Unorganized; in particular the courses of a deleted folder are listed
\* under Unorganized.
C26_ListedExactlyOnce ==
    \A c \in DOMAIN folderView.courses : Cardinality(ListedUnder(c)) = 1

----------------------------------------------------------------------------
(* The relevance of every recommendation, checked under SpecRecommend      *)

\* C28: every recommendation of a 200 response, from the model or from the
\* templates adjusted for the average quiz score, has a relevanceScore
\* between 0.7 and 1.0.
C28_RelevanceInRange ==
    mapped.pc = "done" =>
        \A i \in 1..Len(mapped.out) :
            /\ mapped.out[i].relevanceScore.t = "number"
            /\ mapped.out[i].relevanceScore.n >= 70
            /\ mapped.out[i].relevanceScore.n <= 100

----------------------------------------------------------------------------
(* Properties of useRecommendedLessons, checked under SpecRecommender      *)

\* C29: recommendedLessons never holds more than six entries, and a call of
\* generateRecommendedLessons that was not skipped ends with isLoading
\* false.
C29_AtMostSixAndLoadingCleared ==
    /\ [](Len(recommender.recommendedLessons) <= 6)
    /\ [][recommender'.generating < recommender.generating => ~recommender'.isLoading]_vars

\* A response of more than six lessons was cut to six, a similar lesson was
\* then put in front of a full list, and no call is in flight.
C29_Witness ==
    /\ Len(recommender.recommendedLessons) = 6
    /\ recommender.recommendedLessons[1] = "curated"
    /\ recommender.recommendedLessons[6] = "ai-generated"
    /\ recommender.generating = 0
    /\ ~recommender.isLoading

----------------------------------------------------------------------------
(* Properties of the tutor chat, checked under SpecTutor                   *)

\* The invocation has just resolved with an error or with a body that has
\* no response text.
InvocationFailed ==
    /\ tutor.pc = "invoking"
    /\ tutor'.pc # "invoking"
    /\ \/ tutor'.result.error
       \/ tutor'.result.data = "null"
       \/ tutor'.result.response \in {Undefined, Str("")}

\* C30: when the invocation returns an error or a body without response
\* text, sendMessage inserts no tutor_chats row, leaves chatHistory
\* unchanged, puts the sent text back into the input and clears
\* isChatLoading; every entry of chatHistory has a non-empty response.
C30_FailedSendLeavesNoTrace ==
    /\ [](\A i \in 1..Len(tutor.chatHistory) :
            /\ tutor.chatHistory[i].response.t = "string"
            /\ tutor.chatHistory[i].response.s # "")
    /\ [][InvocationFailed =>
            /\ tutor'.pc = "idle"
            /\ tutor'.tutor_chats = tutor.tutor_chats
            /\ tutor'.chatHistory = tutor.chatHistory
            /\ tutor'.currentMessage = tutor.messageToSend
            /\ ~tutor'.isChatLoading]_vars

\* After one chat that was answered and stored, a second message got a body
\* with an empty response and is back in the input.
C30_Witness ==
    /\ tutor.pc = "idle"
    /\ tutor.result = [error |-> FALSE, data |-> "object", response |-> Str("")]
    /\ tutor.currentMessage = <<"y", "o">>
    /\ tutor.messageToSend = <<"y", "o">>
    /\ Len(tutor.chatHistory) = 1
    /\ tutor.tutor_chats = 1
    /\ ~tutor.isChatLoading

====
